---- MODULE Spec2Model ----
(***************************************************************************)
(* Industry-chain streaming pipelines (app/services/industry_chain_service *)
(* .py) and their SSE wrapper (app/apis/v1/endpoint_industry_chain.py).    *)
(*                                                                         *)
(* One request is modelled per behaviour.  The pipeline coroutine is an    *)
(* async generator: every action below is the code that runs from one      *)
(* suspension point (a yield or an await) to the next.  A yielded event is *)
(* handed synchronously to _sse_wrapper, which writes its two chunks.      *)
(* The search tasks created by asyncio.ensure_future run concurrently and  *)
(* complete in any order.  The language model and the search backend are   *)
(* external: their replies are nondeterministic inputs.                    *)
(*                                                                         *)
(* Texts are sequences of tokens <<kind, index>>.  Message strings are     *)
(* modelled as tuples <<tag, arguments...>>; the timestamp field of an     *)
(* event (datetime.now) is left out.                                       *)
(***************************************************************************)
EXTENDS Integers, Sequences, FiniteSets, TLC

\* ------------------------------------------------------------------ bounds
\* Longest JSON list the language model returns for a keyword request.
MaxLlmKeywords == 6
\* Longest event script of the stub iterator handed to _sse_wrapper.
MaxStubLen == 3
\* Largest sequence_number carried by a stub event.
MaxStubSeq == 3
\* Longest JSON array the language model returns for an enterprise request.
MaxEnterprises == 16

\* ------------------------------------------------------- program constants
\* keywords[:5] in _generate_keywords, and the length of default_keywords.
AnalyzeKeywordCap == 5
\* [...][:3] in generate_stream (refine keywords).
RefineKeywordCap == 3
\* max_attempts = 2 in generate_stream.
max_attempts == 2
\* enterprises[:15] in search_related_enterprises.
EnterpriseCap == 15
\* max_attempts = 2 in search_related_enterprises.
lookup_max_attempts == 2
\* search_context[:15000] in search_related_enterprises.
LookupContextCap == 15000

\* ------------------------------------------------------------ small helpers
Max(a, b) == IF a >= b THEN a ELSE b

Min(a, b) == IF a <= b THEN a ELSE b

\* s[:n] of Python for n >= 0.
Take(s, n) == SubSeq(s, 1, Min(n, Len(s)))

\* text.find(tok): first 1-based position of a token of kind k, 0 when absent
\* (Python returns -1).
Find(text, k) ==
    IF \E i \in 1..Len(text) : text[i][1] = k
    THEN CHOOSE i \in 1..Len(text) :
            /\ text[i][1] = k
            /\ \A j \in 1..(i - 1) : text[j][1] # k
    ELSE 0

\* text.rfind(tok): last 1-based position of a token of kind k, 0 when absent.
RFind(text, k) ==
    IF \E i \in 1..Len(text) : text[i][1] = k
    THEN CHOOSE i \in 1..Len(text) :
            /\ text[i][1] = k
            /\ \A j \in (i + 1)..Len(text) : text[j][1] # k
    ELSE 0

\* ---------------------------------------------------------------- tokens
Tok(k) == <<k, 0>>

\* A JSON string element of a keyword list.
KwTok(i) == <<"k", i>>

\* The character(s) k inside a JSON string value: the scans of the extractor
\* see the kind only, a JSON parser sees string content.
InStr(k) == <<k, -1>>

\* len(formatted_text) of what the search returns for a keyword: the texts
\* found are long, so that the merged context exceeds the cut of each caller.
TextLen(kw) ==
    IF kw[1] = "eq" THEN 16000
    ELSE IF kw[2] = 2 THEN 12000
         ELSE IF kw[2] = 4 THEN 2997 ELSE 4000

\* Characters a token of a search context stands for: the text found for a
\* keyword (or its first tok[3] characters), the "\n\n" of the join, a
\* placeholder, or one character.
Chars(tok) ==
    IF Len(tok) = 3 THEN tok[3]
    ELSE IF tok[1] \in {"k", "d", "eq"} THEN TextLen(tok)
         ELSE IF tok[1] = "nn" THEN 2
              ELSE IF tok[1] = "no_results_found" THEN 10
                   ELSE IF tok[1] = "no_supplement_found" THEN 8 ELSE 1

\* the context used whole, without the slice
Cut_whole(text, n) == text

\* text[:n] in characters: the tokens that fit and, of the token that does
\* not, its first characters.
RECURSIVE Cut(_, _)
Cut(text, n) ==
    IF text = <<>> \/ n <= 0
    THEN <<>>
    ELSE IF Chars(Head(text)) <= n
         THEN <<Head(text)>> \o Cut(Tail(text), n - Chars(Head(text)))
         ELSE << <<Head(text)[1], Head(text)[2], n>> >>

\* "\n\n".join(texts)
RECURSIVE Join(_)
Join(texts) ==
    IF texts = <<>>
    THEN <<>>
    ELSE Head(texts)
         \o (IF Tail(texts) = <<>> THEN <<>> ELSE <<Tok("nn")>>)
         \o Join(Tail(texts))

\* A str argument substituted into a template.
Field(x) == <<"field", x>>

\* ------------------------------------------------------------------ events
\* IndustryChainEventType values.
EventTypes == {"started", "searching", "keyword_generated", "web_searching",
               "web_result", "progress", "analyzing", "generating",
               "completed", "error"}

NoData == [empty |-> TRUE]

MakeEvent(event_type, s, data, message) ==
    [event_type |-> event_type, sequence_number |-> s,
     data |-> data, message |-> message]

MakeProgressEvent(s, step_name, completed_steps, total_steps, percentage) ==
    MakeEvent("progress", s,
              [step_name |-> step_name, completed_steps |-> completed_steps,
               total_steps |-> total_steps, percentage |-> percentage],
              step_name)

\* ------------------------------------------------ external collaborators
\* Exceptions invoke_llm_with_fallback may raise.
LlmErrors == {"InvocationError", "TimeoutError"}

NoError == "none"

\* A reply of invoke_llm_with_fallback: either an exception or a content.
Raised(kind) == [raised |-> kind, content |-> <<>>]

Content(text) == [raised |-> NoError, content |-> text]

\* <<"[", k1, ..., kn, "]">>
KwList(n) == <<Tok("[")>> \o [i \in 1..n |-> KwTok(i)] \o <<Tok("]")>>

\* Texts the language model may return to a keyword prompt.
KwTexts ==
    {KwList(n) : n \in 0..MaxLlmKeywords}
    \cup {<<Tok("p")>> \o KwList(n) \o <<Tok("p")>> : n \in 2..3}
    \cup {<<Tok("p"), Tok("p")>>,
          <<Tok("["), KwTok(1)>>,
          KwList(1) \o <<Tok("p")>> \o KwList(1),
          <<Tok("]"), Tok("p"), Tok("[")>>}

KwReplies == {Raised(k) : k \in LlmErrors} \cup {Content(t) : t \in KwTexts}

\* Texts the language model may return to a tree prompt.
\*   F = ``` fence, J = the json tag, W = whitespace, p = prose,
\*   I = an "industry_name" member, N = a "name" member,
\*   C = the "children" key (its value follows),
\*   D = the "description" key and the opening quote of its value, whose
\*       content follows as InStr tokens up to Q, the closing quote.
\* The last four texts: an object whose description holds a "}", an object
\* whose description holds a fenced {}, a fenced tree followed by prose
\* with a second fenced object, and a nested tree between prose that ends
\* with a stray "}"; then three objects of three levels: a tree, one whose
\* node of the third level has no name, and one whose node of the second
\* level has an object as its children.
SynthTexts ==
    {<<Tok("{"), Tok("I"), Tok("C"), Tok("["), Tok("{"), Tok("N"), Tok("}"),
       Tok("]"), Tok("}")>>,
     <<Tok("p"), Tok("F"), Tok("J"), Tok("W"), Tok("{"), Tok("I"), Tok("}"),
       Tok("W"), Tok("F"), Tok("p")>>,
     <<Tok("{"), Tok("I"), Tok("}"), Tok("p")>>,
     <<Tok("p"), Tok("p")>>,
     <<Tok("{"), Tok("I"), Tok("C"), Tok("["), Tok("{"), Tok("N"), Tok("}")>>,
     <<Tok("{"), Tok("N"), Tok("}")>>,
     <<Tok("{"), Tok("I"), Tok("C"), Tok("["), Tok("{"), Tok("}"), Tok("]"),
       Tok("}")>>,
     <<Tok("{"), Tok("I"), Tok("D"), InStr("p"), InStr("}"), InStr("p"),
       Tok("Q"), Tok("}")>>,
     <<Tok("{"), Tok("I"), Tok("D"), InStr("F"), InStr("{"), InStr("}"),
       InStr("F"), Tok("Q"), Tok("}")>>,
     <<Tok("p"), Tok("F"), Tok("J"), Tok("W"), Tok("{"), Tok("I"), Tok("}"),
       Tok("W"), Tok("F"), Tok("p"), Tok("F"), Tok("{"), Tok("}"), Tok("F")>>,
     <<Tok("p"), Tok("{"), Tok("I"), Tok("C"), Tok("["), Tok("{"), Tok("N"),
       Tok("}"), Tok("]"), Tok("}"), Tok("p"), Tok("}")>>,
     <<Tok("{"), Tok("I"), Tok("C"), Tok("["), Tok("{"), Tok("N"), Tok("C"),
       Tok("["), Tok("{"), Tok("N"), Tok("}"), Tok("]"), Tok("}"), Tok("]"),
       Tok("}")>>,
     <<Tok("{"), Tok("I"), Tok("C"), Tok("["), Tok("{"), Tok("N"), Tok("C"),
       Tok("["), Tok("{"), Tok("}"), Tok("]"), Tok("}"), Tok("]"), Tok("}")>>,
     <<Tok("{"), Tok("I"), Tok("C"), Tok("["), Tok("{"), Tok("N"), Tok("C"),
       Tok("{"), Tok("N"), Tok("}"), Tok("}"), Tok("]"), Tok("}")>>}

SynthReplies == {Raised(k) : k \in LlmErrors} \cup {Content(t) : t \in SynthTexts}

\* Replies to the understanding prompt of Analyze (free text).
UnderstandingReplies ==
    {Raised(k) : k \in LlmErrors} \cup {Content(<<Tok("p")>>)}

\* formatted_text values of bocha_web_search.
EmptyText == <<>>

NotFoundText == <<Tok("notfound")>>

Page(name, url) == [name |-> name, url |-> url, siteName |-> "site"]

\* What the web holds for a keyword (kw[2] is its index in its list): nothing
\* for the first keyword of a list, pages without text for the third one,
\* and for the others pages, one of them without url, and a text.  The urls
\* are shared by the keywords.
Web(kw) ==
    IF kw[2] = 1
    THEN [raised |-> NoError, webpages |-> <<>>, formatted_text |-> NotFoundText]
    ELSE IF kw[2] = 3
         THEN [raised |-> NoError,
               webpages |-> <<Page(kw, "u2"), Page(kw, "u1")>>,
               formatted_text |-> EmptyText]
         ELSE [raised |-> NoError,
               webpages |-> <<Page(kw, "u1"), Page(kw, ""), Page(kw, "u2")>>,
               formatted_text |-> <<kw>>]

\* What bocha_web_search(keyword) may do: raise, or return what the web holds.
SearchOutcomes(kw) ==
    {[raised |-> "SearchFailure", webpages |-> <<>>, formatted_text |-> EmptyText],
     Web(kw)}

\* _search_one without its try/except: the exception ends the task.
SearchOne_uncaught(kw, outcome) ==
    [keyword |-> kw, webpages |-> outcome.webpages,
     formatted_text |-> outcome.formatted_text, err |-> NoError,
     escaped |-> outcome.raised]

\* _search_one: the outcome of the task that runs it.  An exception of the
\* search is caught and returned as the third component of the tuple
\* (keyword, result, error); `escaped` is the exception the task itself ends
\* with, which `await coro` would re-raise in the pipeline: none.
SearchOne(kw, outcome) ==
    IF outcome.raised # NoError
    THEN [keyword |-> kw, webpages |-> <<>>, formatted_text |-> EmptyText,
          err |-> outcome.raised, escaped |-> NoError]
    ELSE [keyword |-> kw, webpages |-> outcome.webpages,
          formatted_text |-> outcome.formatted_text, err |-> NoError,
          escaped |-> NoError]

\* ------------------------------------------------------ keyword generation
\* json.loads of a bracketed span: the list of its elements, or failure.
JsonLoadsList(span) ==
    IF /\ Len(span) >= 2
       /\ span[1][1] = "["
       /\ span[Len(span)][1] = "]"
       /\ \A i \in 2..(Len(span) - 1) : span[i][1] = "k"
    THEN [ok |-> TRUE, value |-> SubSeq(span, 2, Len(span) - 1)]
    ELSE [ok |-> FALSE, value |-> <<>>]

\* text[start:end + 1] for the positions found by find / rfind.
BracketSpan(text) == SubSeq(text, Find(text, "["), RFind(text, "]"))

default_keywords == [i \in 1..5 |-> <<"d", i>>]

\* _generate_keywords without the [:5] cut
GenerateKeywords_uncut(reply) ==
    IF reply.raised # NoError
    THEN default_keywords
    ELSE LET text == reply.content
             parsed == JsonLoadsList(BracketSpan(text))
         IN IF Find(text, "[") # 0 /\ RFind(text, "]") # 0
            THEN IF ~parsed.ok
                 THEN default_keywords
                 ELSE IF Len(parsed.value) > 0
                      THEN parsed.value
                      ELSE default_keywords
            ELSE default_keywords

\* _generate_keywords without the `len(keywords) > 0` test
GenerateKeywords_keep_empty(reply) ==
    IF reply.raised # NoError
    THEN default_keywords
    ELSE LET text == reply.content
             parsed == JsonLoadsList(BracketSpan(text))
         IN IF Find(text, "[") # 0 /\ RFind(text, "]") # 0
            THEN IF ~parsed.ok
                 THEN default_keywords
                 ELSE Take(parsed.value, AnalyzeKeywordCap)
            ELSE default_keywords

\* _generate_keywords, given the reply of the language model.
GenerateKeywords(reply) ==
    IF reply.raised # NoError
    THEN default_keywords
    ELSE LET text == reply.content
             parsed == JsonLoadsList(BracketSpan(text))
         IN IF Find(text, "[") # 0 /\ RFind(text, "]") # 0
            THEN IF ~parsed.ok
                 THEN default_keywords
                 ELSE IF Len(parsed.value) > 0
                      THEN Take(parsed.value, AnalyzeKeywordCap)
                      ELSE default_keywords
            ELSE default_keywords

\* The single fallback keyword of refine mode: f"{query} {feedback}".
refine_fallback == <<"fb", 0>>

\* the keyword step without the [:3] cut
RefineKeywords_uncut(reply) ==
    IF reply.raised # NoError
    THEN <<refine_fallback>>
    ELSE LET text == reply.content
             parsed == JsonLoadsList(BracketSpan(text))
         IN IF Find(text, "[") # 0 /\ RFind(text, "]") # 0
            THEN IF ~parsed.ok
                 THEN <<refine_fallback>>
                 ELSE parsed.value
            ELSE <<refine_fallback>>

\* the keyword step giving no keyword when the call raises
RefineKeywords_empty_on_raise(reply) ==
    IF reply.raised # NoError
    THEN <<>>
    ELSE LET text == reply.content
             parsed == JsonLoadsList(BracketSpan(text))
         IN IF Find(text, "[") # 0 /\ RFind(text, "]") # 0
            THEN IF ~parsed.ok
                 THEN <<refine_fallback>>
                 ELSE Take(parsed.value, RefineKeywordCap)
            ELSE <<refine_fallback>>

\* The keyword step of generate_stream in refine mode.
RefineKeywords(reply) ==
    IF reply.raised # NoError
    THEN <<refine_fallback>>
    ELSE LET text == reply.content
             parsed == JsonLoadsList(BracketSpan(text))
         IN IF Find(text, "[") # 0 /\ RFind(text, "]") # 0
            THEN IF ~parsed.ok
                 THEN <<refine_fallback>>
                 ELSE Take(parsed.value, RefineKeywordCap)
            ELSE <<refine_fallback>>

\* ------------------------------------------------------ structured extractor
\* First position >= i that holds no whitespace token.
RECURSIVE SkipWs(_, _)
SkipWs(text, i) ==
    IF i <= Len(text) /\ text[i][1] = "W" THEN SkipWs(text, i + 1) ELSE i

\* The regular expression ```(?:json)?\s*(OPEN[\s\S]*CLOSE)\s*``` tried at
\* fence position s: the bounds of group 1, <<0, 0>> when there is no match.
FenceMatchAt(text, s, open, close) ==
    LET a == IF s + 1 <= Len(text) /\ text[s + 1][1] = "J" THEN s + 2 ELSE s + 1
        b == SkipWs(text, a)
        Ends == {e \in (b + 1)..Len(text) :
                    /\ text[e][1] = close
                    /\ SkipWs(text, e + 1) <= Len(text)
                    /\ text[SkipWs(text, e + 1)][1] = "F"}
    IN IF /\ text[s][1] = "F"
          /\ b <= Len(text)
          /\ text[b][1] = open
          /\ Ends # {}
       THEN <<b, CHOOSE e \in Ends : \A x \in Ends : x <= e>>
       ELSE <<0, 0>>

\* re.search: the match at the leftmost position that has one.
FenceSearch(text, open, close) ==
    LET Starts == {s \in 1..Len(text) : FenceMatchAt(text, s, open, close) # <<0, 0>>}
    IN IF Starts = {}
       THEN <<0, 0>>
       ELSE FenceMatchAt(text, CHOOSE s \in Starts : \A x \in Starts : s <= x,
                         open, close)

\* depth after scanning text[start..i].
Depth(text, start, i, open, close) ==
    Cardinality({j \in start..i : text[j][1] = open})
    - Cardinality({j \in start..i : text[j][1] = close})

\* the span taken from the first open to the last close (find / rfind, as
\* _generate_keywords does)
DepthScan_to_last(text, open, close) ==
    LET start == Find(text, open)
        end == RFind(text, close)
    IN IF start = 0 \/ end < start
       THEN [ok |-> FALSE, span |-> <<>>]
       ELSE [ok |-> TRUE, span |-> SubSeq(text, start, end)]

\* The bracket-pairing scan: the first i with text[i] = close and depth 0.
DepthScan(text, open, close) ==
    LET start == Find(text, open)
        Hits == {i \in start..Len(text) :
                    text[i][1] = close /\ Depth(text, start, i, open, close) = 0}
    IN IF start = 0
       THEN [ok |-> FALSE, span |-> <<>>]
       ELSE IF Hits = {}
            THEN [ok |-> FALSE, span |-> <<>>]
            ELSE [ok |-> TRUE,
                  span |-> SubSeq(text, start, CHOOSE i \in Hits : \A x \in Hits : i <= x)]

\* _extract_json_object: ok = FALSE stands for the ValueError.
ExtractJsonObject(text) ==
    LET m == FenceSearch(text, "{", "}")
    IN IF m # <<0, 0>>
       THEN [ok |-> TRUE, span |-> SubSeq(text, m[1], m[2])]
       ELSE DepthScan(text, "{", "}")

\* _extract_json_array
ExtractJsonArray(text) ==
    LET m == FenceSearch(text, "[", "]")
    IN IF m # <<0, 0>>
       THEN [ok |-> TRUE, span |-> SubSeq(text, m[1], m[2])]
       ELSE DepthScan(text, "[", "]")

\* IndustryChainTree / IndustryChainNode validation of a JSON text.
\* ParseMembers reads the members of an object whose "{" was consumed and
\* returns the position after its "}", or 0 when the text is not JSON or the
\* required member (req) is missing or a child is not a valid node.
\* Only tokens outside strings (index 0) are structure; the content of a
\* string value runs from D over InStr tokens to the closing quote Q.
RECURSIVE StringEnd(_, _)
StringEnd(s, j) ==
    IF j > Len(s)
    THEN 0
    ELSE IF s[j] = Tok("Q")
         THEN j
         ELSE IF s[j][2] = -1 THEN StringEnd(s, j + 1) ELSE 0

RECURSIVE ParseMembers(_, _, _, _), ParseNodeList(_, _)
ParseMembers(s, j, req, seen) ==
    IF j > Len(s)
    THEN 0
    ELSE IF s[j] = Tok("}")
         THEN (IF seen THEN j + 1 ELSE 0)
         ELSE IF s[j] \in {Tok("I"), Tok("N")}
              THEN ParseMembers(s, j + 1, req, seen \/ s[j][1] = req)
              ELSE IF s[j] = Tok("W")
                   THEN ParseMembers(s, j + 1, req, seen)
                   ELSE IF s[j] = Tok("D")
                        THEN LET e == StringEnd(s, j + 1)
                             IN IF e = 0 THEN 0
                                ELSE ParseMembers(s, e + 1, req, seen)
                        ELSE IF /\ s[j] = Tok("C")
                                /\ j + 1 <= Len(s)
                                /\ s[j + 1] = Tok("[")
                             THEN LET k == ParseNodeList(s, j + 2)
                                  IN IF k = 0 THEN 0
                                     ELSE ParseMembers(s, k, req, seen)
                             ELSE 0

ParseNodeList(s, j) ==
    IF j > Len(s)
    THEN 0
    ELSE IF s[j] = Tok("]")
         THEN j + 1
         ELSE IF s[j] = Tok("{")
              THEN LET k == ParseMembers(s, j + 1, "N", FALSE)
                   IN IF k = 0 THEN 0 ELSE ParseNodeList(s, k)
              ELSE 0

\* a validation that looks at the top level only: a JSON object with an
\* industry_name member
ModelValidateJson_top_only(json_str) ==
    /\ Len(json_str) >= 2
    /\ json_str[1] = Tok("{")
    /\ json_str[Len(json_str)] = Tok("}")
    /\ \E j \in 2..(Len(json_str) - 1) :
          /\ json_str[j] = Tok("I")
          /\ Cardinality({x \in 2..(j - 1) : json_str[x] \in {Tok("{"), Tok("[")}})
             = Cardinality({x \in 2..(j - 1) : json_str[x] \in {Tok("}"), Tok("]")}})

\* IndustryChainTree.model_validate_json: TRUE when it returns a tree.
ModelValidateJson(json_str) ==
    /\ Len(json_str) >= 1
    /\ json_str[1] = Tok("{")
    /\ ParseMembers(json_str, 2, "I", FALSE) = Len(json_str) + 1

\* One pass of the body of the retry loop of generate_stream on a reply:
\* the tree on success, the exception that was caught otherwise.
TryParseTree(reply) ==
    IF reply.raised # NoError
    THEN [ok |-> FALSE, tree |-> <<>>, error |-> reply.raised]
    ELSE LET x == ExtractJsonObject(reply.content)
         IN IF ~x.ok
            THEN [ok |-> FALSE, tree |-> <<>>, error |-> "ValueError"]
            ELSE IF ~ModelValidateJson(x.span)
                 THEN [ok |-> FALSE, tree |-> <<>>, error |-> "ValidationError"]
                 ELSE [ok |-> TRUE, tree |-> x.span, error |-> NoError]

\* ------------------------------------------------------------ source lists
\* {"title": p.get("name"), "url": p.get("url"), "siteName": p.get("siteName")}
SourceOf(p) == [title |-> p.name, url |-> p.url, siteName |-> p.siteName]

\* The sources of one web_result event: the pages with a non-empty url.
RECURSIVE PageSources(_)
PageSources(webpages) ==
    IF webpages = <<>>
    THEN <<>>
    ELSE (IF Head(webpages).url # ""
          THEN <<SourceOf(Head(webpages))>>
          ELSE <<>>) \o PageSources(Tail(webpages))

\* the source list built without the seen_urls test
BuildSources_no_dedup(pages, seen_urls) == PageSources(pages)

\* The sources of the completed event of Analyze: first page of every
\* non-empty url, in first-seen order.
RECURSIVE BuildSources(_, _)
BuildSources(pages, seen_urls) ==
    IF pages = <<>>
    THEN <<>>
    ELSE LET url == Head(pages).url
         IN IF url # "" /\ url \notin seen_urls
            THEN <<SourceOf(Head(pages))>>
                 \o BuildSources(Tail(pages), seen_urls \cup {url})
            ELSE BuildSources(Tail(pages), seen_urls)

\* `if text and text != "未找到相关结果。"`
UsableText(text) == text # EmptyText /\ text # NotFoundText

\* ------------------------------------------------------------------- state
VARIABLES
    request,        \* the request body: op, query, tree, feedback
    pc,             \* suspension point of the pipeline generator
    seq,            \* seq of analyze_stream / generate_stream
    keywords,       \* keywords / refine_keywords
    kw_reply,       \* reply of the keyword call, local to the keyword step
    pending,        \* indices of the search tasks that have not finished
    done_q,         \* results of the finished tasks, in completion order
    search_calls,   \* bocha_web_search calls made, per task index
    completed,      \* completed of the as_completed loop
    all_webpages,   \* all_webpages
    all_formatted,  \* all_formatted
    source_count,   \* source_count
    understanding,  \* understanding
    sources,        \* sources of the completed event
    attempt,        \* attempt of the retry loop
    tree,           \* tree (<<>> stands for None)
    last_error,     \* last_error / the exception caught last
    synth_replies,  \* replies received by the synthesis calls, in call order
    kw_calls,       \* keyword calls made to the language model
    wseq,           \* seq of _sse_wrapper
    out,            \* chunks written by _sse_wrapper
    wpc,            \* "open" while _sse_wrapper iterates, then how it ended
    prompt,         \* prompt of the synthesis call (<<>> before it is built)
    response,       \* HTTP response of the search-enterprises endpoint
    stub            \* the stub iterator given to _sse_wrapper (wrapper runs)

vars == <<request, pc, seq, keywords, kw_reply, pending, done_q, search_calls,
          completed, all_webpages, all_formatted, source_count, understanding,
          sources, attempt, tree, last_error, synth_replies, kw_calls,
          wseq, out, wpc, stub, prompt, response>>

pipeVars == <<request, prompt, response, pc, seq, keywords, kw_reply, pending, done_q,
              search_calls, completed, all_webpages, all_formatted,
              source_count, understanding, sources, attempt, tree, last_error,
              synth_replies, kw_calls>>

\* A JSON value of a request tree: a string or a list of dicts; a dict is
\* the sequence of its members in insertion order.
Str(x) == [kind |-> "str", str |-> x, items |-> <<>>]

List(items) == [kind |-> "list", str |-> "", items |-> items]

Member(k, v) == [key |-> k, val |-> v]

\* The dicts a request may carry as its tree, by name: a tree of two levels
\* whose keys are not in alphabetical order, and the empty dict.
RequestTrees ==
    [tree |-> <<Member("industry_name", Str("a")),
                Member("children",
                       List(<<
                           <<Member("name", Str("b")),
                             Member("children", List(<<>>))>>,
                           <<Member("type", Str("c")),
                             Member("name", Str("d"))>> >>))>>,
     empty_tree |-> <<>>]

Requests ==
    {[op |-> "analyze", query |-> "q", understanding |-> "None",
      tree |-> "None", feedback |-> "None"]}
    \cup {[op |-> "generate", query |-> "q", understanding |-> "und",
           tree |-> t, feedback |-> f] :
             t \in {"None"} \cup DOMAIN RequestTrees,
             f \in {"None", "feedback"}}

\* refine mode chosen when either field is present
is_refine_either == request.tree # "None" \/ request.feedback # "None"

\* is_refine = request.tree is not None and request.feedback is not None
is_refine == request.tree # "None" /\ request.feedback # "None"

NoReply == Content(<<>>)

\* No HTTP response has been produced.
NoResponse == [status |-> 0]

NoStub == [items |-> <<>>, sent |-> 0, raises |-> NoError]

\* Events a stub iterator may deliver, and the stub iterators: a script of
\* events (sent counts those delivered), after which the iterator either
\* stops or raises.
StubEvents ==
    {MakeEvent(t, n, NoData, <<"stub">>) :
        t \in {"progress", "web_result"}, n \in 1..MaxStubSeq}

RECURSIVE Scripts(_)
Scripts(n) ==
    IF n = 0
    THEN {<<>>}
    ELSE Scripts(n - 1)
         \cup {Append(sc, e) : sc \in {x \in Scripts(n - 1) : Len(x) = n - 1},
                               e \in StubEvents}

Stubs ==
    {[items |-> sc, sent |-> 0, raises |-> r] :
        sc \in Scripts(MaxStubLen), r \in {NoError, "RuntimeError", "KeyError"}}

\* A request to the search-enterprises endpoint.
LookupRequest ==
    [op |-> "enterprises", query |-> "None", understanding |-> "None",
     tree |-> "None", feedback |-> "None",
     node_name |-> "node", chain_definition |-> "chain"]

StubRequest ==
    [op |-> "stub", query |-> "q", understanding |-> "None",
     tree |-> "None", feedback |-> "None"]

PipeInit(req) ==
    /\ request = req
    /\ pc = (IF req.op = "analyze" THEN "a_init"
             ELSE IF req.op = "generate" THEN "g_init"
             ELSE IF req.op = "enterprises" THEN "e_init" ELSE "stub")
    /\ seq = 0
    /\ keywords = <<>>
    /\ kw_reply = NoReply
    /\ pending = {}
    /\ done_q = <<>>
    /\ search_calls = <<>>
    /\ completed = 0
    /\ all_webpages = <<>>
    /\ all_formatted = <<>>
    /\ source_count = 0
    /\ understanding = <<>>
    /\ sources = <<>>
    /\ attempt = 0
    /\ tree = <<>>
    /\ last_error = NoError
    /\ synth_replies = <<>>
    /\ kw_calls = 0
    /\ prompt = <<>>
    /\ response = NoResponse

WrapperInit ==
    /\ wseq = 0
    /\ out = <<>>
    /\ wpc = "open"

\* A request to one of the two streaming endpoints or to the
\* search-enterprises endpoint, or _sse_wrapper applied to a stub iterator.
Init ==
    /\ WrapperInit
    /\ \/ /\ \E req \in Requests \cup {LookupRequest} : PipeInit(req)
          /\ stub = NoStub
       \/ /\ PipeInit(StubRequest)
          /\ stub \in Stubs

\* ------------------------------------------------------------ _sse_wrapper
\* f"event: {event.event_type.value}\n"
EventChunk(e) == [line |-> "event", value |-> e.event_type, body |-> NoData]

\* f"data: {event.model_dump_json()}\n\n"
DataChunk(e) == [line |-> "data", value |-> e.event_type, body |-> e]

\* The error event of the except branch of _sse_wrapper; e is the exception.
WrapperErrorEvent(s, e) ==
    MakeEvent("error", s, NoData, <<"internal_error_retry_later">>)

\* the wrapper keeping the last sequence number instead of the largest
WrapperSeq_last(s, e) == e.sequence_number

\* seq = max(seq, event.sequence_number) in the loop body of _sse_wrapper.
WrapperSeq(s, e) == Max(s, e.sequence_number)

\* the two yields of the loop body in the opposite order
WrapperOnEvent_data_first(e) ==
    /\ wpc = "open"
    /\ wseq' = WrapperSeq(wseq, e)
    /\ out' = out \o <<DataChunk(e), EventChunk(e)>>
    /\ UNCHANGED wpc

\* The body of the `async for` of _sse_wrapper for one event.
WrapperOnEvent(e) ==
    /\ wpc = "open"
    /\ wseq' = WrapperSeq(wseq, e)
    /\ out' = out \o <<EventChunk(e), DataChunk(e)>>
    /\ UNCHANGED wpc

\* the error event written in a `finally:` instead of an `except:`
WrapperOnStop_finally ==
    /\ wpc = "open"
    /\ wseq' = wseq + 1
    /\ out' = out \o <<EventChunk(MakeEvent("error", wseq + 1, NoData,
                                             <<"internal_error_retry_later">>)),
                       DataChunk(MakeEvent("error", wseq + 1, NoData,
                                            <<"internal_error_retry_later">>))>>
    /\ wpc' = "closed"

\* The iterator is exhausted: the loop and the wrapper end.
WrapperOnStop ==
    /\ wpc = "open"
    /\ wpc' = "closed"
    /\ UNCHANGED <<wseq, out>>

\* The iterator raised e: the except branch of _sse_wrapper.
WrapperOnRaise(e) ==
    /\ wpc = "open"
    /\ wseq' = wseq + 1
    /\ out' = out \o <<EventChunk(WrapperErrorEvent(wseq + 1, e)),
                       DataChunk(WrapperErrorEvent(wseq + 1, e))>>
    /\ wpc' = "closed_on_error"

\* A yield of the pipeline generator: the event goes to _sse_wrapper.
Yield(e) == WrapperOnEvent(e) /\ UNCHANGED stub

\* The stub iterator delivers its next event.
StubNext ==
    /\ pc = "stub"
    /\ stub.sent < Len(stub.items)
    /\ WrapperOnEvent(stub.items[stub.sent + 1])
    /\ stub' = [stub EXCEPT !.sent = @ + 1]
    /\ UNCHANGED pipeVars

\* The stub iterator stops.
StubStop ==
    /\ pc = "stub"
    /\ stub.sent = Len(stub.items)
    /\ stub.raises = NoError
    /\ WrapperOnStop
    /\ UNCHANGED stub
    /\ UNCHANGED pipeVars

\* The stub iterator raises.
StubRaise ==
    /\ pc = "stub"
    /\ stub.sent = Len(stub.items)
    /\ stub.raises # NoError
    /\ WrapperOnRaise(stub.raises)
    /\ UNCHANGED stub
    /\ UNCHANGED pipeVars

StubIter == StubNext \/ StubStop \/ StubRaise

\* ------------------------------------------------------------ search tasks
\* asyncio.ensure_future(self._search_one(kw)) for every keyword.
SpawnTasks(kws) ==
    /\ pending' = 1..Len(kws)
    /\ done_q' = <<>>
    /\ search_calls' = [i \in 1..Len(kws) |-> 0]
    /\ completed' = 0

\* _search_one calling the search a second time after a failure
SearchTaskDone_retry_failed(i, outcome) ==
    /\ i \in pending
    /\ search_calls' = [search_calls EXCEPT ![i] = @ + 1]
    /\ IF outcome.raised # NoError /\ search_calls[i] = 0
       THEN UNCHANGED <<pending, done_q>>
       ELSE /\ pending' = pending \ {i}
            /\ done_q' = Append(done_q, SearchOne(keywords[i], outcome))
    /\ UNCHANGED <<request, prompt, response, pc, seq, keywords, kw_reply, completed,
                   all_webpages, all_formatted, source_count, understanding,
                   sources, attempt, tree, last_error, synth_replies, kw_calls,
                   wseq, out, wpc, stub>>

\* a task that takes the next sequence number itself when it finishes
SearchTaskDone_takes_seq(i, outcome) ==
    /\ i \in pending
    /\ pending' = pending \ {i}
    /\ search_calls' = [search_calls EXCEPT ![i] = @ + 1]
    /\ done_q' = Append(done_q, SearchOne(keywords[i], outcome))
    /\ seq' = seq + 1
    /\ UNCHANGED <<request, prompt, response, pc, keywords, kw_reply, completed,
                   all_webpages, all_formatted, source_count, understanding,
                   sources, attempt, tree, last_error, synth_replies, kw_calls,
                   wseq, out, wpc, stub>>

\* Task i runs _search_one to its end: one call of bocha_web_search, whose
\* result or exception becomes the task's (keyword, result, error) tuple.
SearchTaskDone(i, outcome) ==
    /\ i \in pending
    /\ pending' = pending \ {i}
    /\ search_calls' = [search_calls EXCEPT ![i] = @ + 1]
    /\ done_q' = Append(done_q, SearchOne(keywords[i], outcome))
    /\ UNCHANGED <<request, prompt, response, pc, seq, keywords, kw_reply, completed,
                   all_webpages, all_formatted, source_count, understanding,
                   sources, attempt, tree, last_error, synth_replies, kw_calls,
                   wseq, out, wpc, stub>>

SearchTask ==
    \E i \in pending : \E outcome \in SearchOutcomes(keywords[i]) :
        SearchTaskDone(i, outcome)

\* len(tasks): the tasks the as_completed loop iterates over.
NumTasks == Len(search_calls)

\* The web_result event of one joined task (both pipelines build it alike,
\* only the message differs).
WebResultEvent(s, r, fail_tag, ok_msg) ==
    IF r.err # NoError
    THEN MakeEvent("web_result", s,
                   [keyword |-> r.keyword, result_count |-> 0],
                   <<fail_tag, r.keyword>>)
    ELSE MakeEvent("web_result", s,
                   [keyword |-> r.keyword, result_count |-> Len(r.webpages),
                    sources |-> PageSources(r.webpages)],
                   ok_msg)

\* ---------------------------------------------------------- analyze_stream
\* the except branch putting str(e) into the message
AnalyzeErrorEvent_leak(s, e) ==
    MakeEvent("error", s, NoData, <<"analyze_failed", e>>)

\* The error event of the except branch of analyze_stream; e is the exception.
AnalyzeErrorEvent(s, e) ==
    MakeEvent("error", s, NoData, <<"analyze_failed_retry_later">>)

\* search_context of analyze_stream
AnalyzeContext(formatted) ==
    IF formatted = <<>> THEN <<Tok("no_results_found")>> ELSE Join(formatted)

\* search_context[:15000]
AnalyzeContextCap == 15000

\* UNDERSTANDING_PROMPT.format(query=, search_context=): the template ends
\* with the search context.
UnderstandingPrompt(query, search_context) ==
    << <<"UNDERSTANDING_PROMPT", 1>>, Field(query),
       <<"UNDERSTANDING_PROMPT", 2>> >>
    \o search_context

\* the percentage computed over the 5 keywords of the cap instead of the
\* keywords there are
AnalyzePct_of_cap(c, keyword_count) == 20 + ((40 * c) \div AnalyzeKeywordCap)

\* the percentage of the loop computed without its base of 20
AnalyzePct_no_base(c, keyword_count) == (40 * c) \div keyword_count

\* pct = 20 + int(40 * completed / keyword_count)
AnalyzePct(c, keyword_count) == 20 + ((40 * c) \div keyword_count)

\* 1. STARTED
AnalyzeStart ==
    /\ pc = "a_init"
    /\ seq' = seq + 1
    /\ Yield(MakeEvent("started", seq', [query |-> request.query],
                       <<"analyze_start", request.query>>))
    /\ pc' = "a_started"
    /\ UNCHANGED <<request, prompt, response, keywords, kw_reply, pending, done_q, search_calls,
                   completed, all_webpages, all_formatted, source_count,
                   understanding, sources, attempt, tree, last_error,
                   synth_replies, kw_calls>>

\* 2. PROGRESS 10
AnalyzeProgressKeywords ==
    /\ pc = "a_started"
    /\ seq' = seq + 1
    /\ Yield(MakeProgressEvent(seq', <<"generating_keywords">>, 0, 5, 10))
    /\ pc' = "a_progress10"
    /\ UNCHANGED <<request, prompt, response, keywords, kw_reply, pending, done_q, search_calls,
                   completed, all_webpages, all_formatted, source_count,
                   understanding, sources, attempt, tree, last_error,
                   synth_replies, kw_calls>>

\* 3.-4. _generate_keywords, then KEYWORD_GENERATED
AnalyzeKeywords ==
    /\ pc = "a_progress10"
    /\ \E reply \in KwReplies :
          /\ kw_reply' = reply
          /\ keywords' = GenerateKeywords(reply)
    /\ kw_calls' = kw_calls + 1
    /\ seq' = seq + 1
    /\ Yield(MakeEvent("keyword_generated", seq', [keywords |-> keywords'],
                       <<"keywords_generated", Len(keywords')>>))
    /\ pc' = "a_keywords"
    /\ UNCHANGED <<request, prompt, response, pending, done_q, search_calls, completed,
                   all_webpages, all_formatted, source_count, understanding,
                   sources, attempt, tree, last_error, synth_replies>>

\* 5. PROGRESS 20
AnalyzeProgressSearch ==
    /\ pc = "a_keywords"
    /\ seq' = seq + 1
    /\ Yield(MakeProgressEvent(seq', <<"search_start">>, 1, 5, 20))
    /\ pc' = "a_progress20"
    /\ kw_reply' = NoReply
    /\ UNCHANGED <<request, prompt, response, keywords, pending, done_q, search_calls,
                   completed, all_webpages, all_formatted, source_count,
                   understanding, sources, attempt, tree, last_error,
                   synth_replies, kw_calls>>

\* 6. the tasks are created and the as_completed loop awaits the first one;
\* with no task the loop body never runs and PROGRESS 60 comes next
AnalyzeSpawn ==
    /\ pc = "a_progress20"
    /\ SpawnTasks(keywords)
    /\ IF Len(keywords) > 0
       THEN /\ pc' = "a_await_search"
            /\ UNCHANGED <<seq, source_count, wseq, out, wpc, stub>>
       ELSE /\ source_count' = Len(all_webpages)
            /\ seq' = seq + 1
            /\ Yield(MakeProgressEvent(seq', <<"search_done_merging">>, 3, 5, 60))
            /\ pc' = "a_progress60"
    /\ UNCHANGED <<request, prompt, response, keywords, kw_reply, all_webpages, all_formatted,
                   understanding, sources, attempt, tree, last_error,
                   synth_replies, kw_calls>>

\* the loop body with `continue` on a failed search, as in
\* search_related_enterprises
AnalyzeJoin_skip_failed ==
    /\ pc = "a_await_search"
    /\ completed < Len(done_q)
    /\ LET r == done_q[completed + 1]
       IN IF r.err # NoError
          THEN /\ completed' = completed + 1
               /\ pc' = "a_search_progress"
               /\ UNCHANGED <<seq, all_webpages, all_formatted, wseq, out,
                              wpc, stub>>
          ELSE /\ seq' = seq + 1
               /\ completed' = completed + 1
               /\ all_webpages' = all_webpages \o r.webpages
               /\ all_formatted' = (IF UsableText(r.formatted_text)
                                    THEN Append(all_formatted, r.formatted_text)
                                    ELSE all_formatted)
               /\ Yield(WebResultEvent(seq', r, "search_failed",
                           <<"search_found", r.keyword, Len(r.webpages)>>))
               /\ pc' = "a_web_result"
    /\ UNCHANGED <<request, prompt, response, keywords, kw_reply, pending, done_q, search_calls,
                   source_count, understanding, sources, attempt, tree,
                   last_error, synth_replies, kw_calls>>

\* the loop joining the tasks in the order of the keyword list (`for t in
\* tasks: await t`) instead of as_completed
AnalyzeJoin_submission_order ==
    /\ pc = "a_await_search"
    /\ \E k \in 1..Len(done_q) : done_q[k].keyword = keywords[completed + 1]
    /\ LET r == done_q[CHOOSE k \in 1..Len(done_q) :
                          done_q[k].keyword = keywords[completed + 1]]
       IN /\ seq' = seq + 1
          /\ completed' = completed + 1
          /\ all_webpages' = (IF r.err # NoError THEN all_webpages
                              ELSE all_webpages \o r.webpages)
          /\ all_formatted' =
                (IF r.err = NoError /\ UsableText(r.formatted_text)
                 THEN Append(all_formatted, r.formatted_text)
                 ELSE all_formatted)
          /\ Yield(WebResultEvent(seq', r, "search_failed",
                      <<"search_found", r.keyword, Len(r.webpages)>>))
          /\ pc' = "a_web_result"
    /\ UNCHANGED <<request, prompt, response, keywords, kw_reply, pending, done_q, search_calls,
                   source_count, understanding, sources, attempt, tree,
                   last_error, synth_replies, kw_calls>>

\* the failure branch recording a page for the keyword that failed
AnalyzeJoin_records_failure ==
    /\ pc = "a_await_search"
    /\ completed < Len(done_q)
    /\ LET r == done_q[completed + 1]
       IN /\ seq' = seq + 1
          /\ IF r.escaped # NoError
             THEN /\ last_error' = r.escaped
                  /\ Yield(AnalyzeErrorEvent(seq', r.escaped))
                  /\ pc' = "a_error"
                  /\ UNCHANGED <<completed, all_webpages, all_formatted>>
             ELSE /\ completed' = completed + 1
                  /\ all_webpages' = (IF r.err # NoError
                                      THEN Append(all_webpages, Page(r.keyword, ""))
                                      ELSE all_webpages \o r.webpages)
                  /\ all_formatted' =
                        (IF r.err = NoError /\ UsableText(r.formatted_text)
                         THEN Append(all_formatted, r.formatted_text)
                         ELSE all_formatted)
                  /\ Yield(WebResultEvent(seq', r, "search_failed",
                              <<"search_found", r.keyword, Len(r.webpages)>>))
                  /\ pc' = "a_web_result"
                  /\ UNCHANGED last_error
    /\ UNCHANGED <<request, prompt, response, keywords, kw_reply, pending, done_q, search_calls,
                   source_count, understanding, sources, attempt, tree,
                   synth_replies, kw_calls>>

\* `keyword, res, err = await coro` returns the next finished task and
\* WEB_RESULT is yielded; an exception that ended the task is re-raised by
\* the await and handled by the except branch.
AnalyzeJoin ==
    /\ pc = "a_await_search"
    /\ completed < Len(done_q)
    /\ LET r == done_q[completed + 1]
       IN /\ seq' = seq + 1
          /\ IF r.escaped # NoError
             THEN /\ last_error' = r.escaped
                  /\ Yield(AnalyzeErrorEvent(seq', r.escaped))
                  /\ pc' = "a_error"
                  /\ UNCHANGED <<completed, all_webpages, all_formatted>>
             ELSE /\ completed' = completed + 1
                  /\ all_webpages' = (IF r.err # NoError THEN all_webpages
                                      ELSE all_webpages \o r.webpages)
                  /\ all_formatted' =
                        (IF r.err = NoError /\ UsableText(r.formatted_text)
                         THEN Append(all_formatted, r.formatted_text)
                         ELSE all_formatted)
                  /\ Yield(WebResultEvent(seq', r, "search_failed",
                              <<"search_found", r.keyword, Len(r.webpages)>>))
                  /\ pc' = "a_web_result"
                  /\ UNCHANGED last_error
    /\ UNCHANGED <<request, prompt, response, keywords, kw_reply, pending, done_q, search_calls,
                   source_count, understanding, sources, attempt, tree,
                   synth_replies, kw_calls>>

\* the progress event counting the finished tasks instead of the joined ones
AnalyzeSearchProgress_counts_finished ==
    /\ pc = "a_web_result"
    /\ seq' = seq + 1
    /\ Yield(MakeProgressEvent(seq',
                               <<"searches_done", Len(done_q), Len(keywords)>>,
                               2, 5, AnalyzePct(completed, Len(keywords))))
    /\ pc' = "a_search_progress"
    /\ UNCHANGED <<request, prompt, response, keywords, kw_reply, pending, done_q, search_calls,
                   completed, all_webpages, all_formatted, source_count,
                   understanding, sources, attempt, tree, last_error,
                   synth_replies, kw_calls>>

\* the progress event of the loop body
AnalyzeSearchProgress ==
    /\ pc = "a_web_result"
    /\ seq' = seq + 1
    /\ Yield(MakeProgressEvent(seq',
                               <<"searches_done", completed, Len(keywords)>>,
                               2, 5, AnalyzePct(completed, Len(keywords))))
    /\ pc' = "a_search_progress"
    /\ UNCHANGED <<request, prompt, response, keywords, kw_reply, pending, done_q, search_calls,
                   completed, all_webpages, all_formatted, source_count,
                   understanding, sources, attempt, tree, last_error,
                   synth_replies, kw_calls>>

\* the loop goes on to await the next task
AnalyzeNextSearch ==
    /\ pc = "a_search_progress"
    /\ completed < NumTasks
    /\ pc' = "a_await_search"
    /\ UNCHANGED <<request, prompt, response, seq, keywords, kw_reply, pending, done_q,
                   search_calls, completed, all_webpages, all_formatted,
                   source_count, understanding, sources, attempt, tree,
                   last_error, synth_replies, kw_calls, wseq, out, wpc, stub>>

\* the end of the loop without its PROGRESS 60 event
AnalyzeSearchDone_no_progress ==
    /\ pc = "a_search_progress"
    /\ completed = NumTasks
    /\ source_count' = Len(all_webpages)
    /\ pc' = "a_progress60"
    /\ UNCHANGED <<request, prompt, response, seq, keywords, kw_reply, pending, done_q,
                   search_calls, completed, all_webpages, all_formatted,
                   understanding, sources, attempt, tree, last_error,
                   synth_replies, kw_calls, wseq, out, wpc, stub>>

\* source_count taken from the deduplicated sources
AnalyzeSearchDone_counts_sources ==
    /\ pc = "a_search_progress"
    /\ completed = NumTasks
    /\ source_count' = Len(BuildSources(all_webpages, {}))
    /\ seq' = seq + 1
    /\ Yield(MakeProgressEvent(seq', <<"search_done_merging">>, 3, 5, 60))
    /\ pc' = "a_progress60"
    /\ UNCHANGED <<request, prompt, response, keywords, kw_reply, pending, done_q, search_calls,
                   completed, all_webpages, all_formatted, understanding,
                   sources, attempt, tree, last_error, synth_replies, kw_calls>>

\* 7. the loop is over: source_count, PROGRESS 60
AnalyzeSearchDone ==
    /\ pc = "a_search_progress"
    /\ completed = NumTasks
    /\ source_count' = Len(all_webpages)
    /\ seq' = seq + 1
    /\ Yield(MakeProgressEvent(seq', <<"search_done_merging">>, 3, 5, 60))
    /\ pc' = "a_progress60"
    /\ UNCHANGED <<request, prompt, response, keywords, kw_reply, pending, done_q, search_calls,
                   completed, all_webpages, all_formatted, understanding,
                   sources, attempt, tree, last_error, synth_replies, kw_calls>>

\* 8. ANALYZING
AnalyzeAnalyzing ==
    /\ pc = "a_progress60"
    /\ seq' = seq + 1
    /\ Yield(MakeEvent("analyzing", seq', [source_count |-> source_count],
                       <<"analyzing", source_count>>))
    /\ pc' = "a_analyzing"
    /\ UNCHANGED <<request, prompt, response, keywords, kw_reply, pending, done_q, search_calls,
                   completed, all_webpages, all_formatted, source_count,
                   understanding, sources, attempt, tree, last_error,
                   synth_replies, kw_calls>>

\* 9. PROGRESS 75
AnalyzeProgressUnderstanding ==
    /\ pc = "a_analyzing"
    /\ seq' = seq + 1
    /\ Yield(MakeProgressEvent(seq', <<"generating_understanding">>, 4, 5, 75))
    /\ pc' = "a_progress75"
    /\ UNCHANGED <<request, prompt, response, keywords, kw_reply, pending, done_q, search_calls,
                   completed, all_webpages, all_formatted, source_count,
                   understanding, sources, attempt, tree, last_error,
                   synth_replies, kw_calls>>

\* the understanding call made a second time after a first failure, as the
\* retry loop of generate_stream does
AnalyzeUnderstanding_retry ==
    /\ pc = "a_progress75"
    /\ prompt' = UnderstandingPrompt(request.query,
                                     Cut(AnalyzeContext(all_formatted),
                                         AnalyzeContextCap))
    /\ \E reply \in UnderstandingReplies :
          /\ synth_replies' = Append(synth_replies, reply)
          /\ IF reply.raised # NoError /\ synth_replies = <<>>
             THEN UNCHANGED <<seq, last_error, pc, understanding, sources,
                              wseq, out, wpc, stub>>
             ELSE /\ seq' = seq + 1
                  /\ IF reply.raised # NoError
                     THEN /\ last_error' = reply.raised
                          /\ Yield(AnalyzeErrorEvent(seq', reply.raised))
                          /\ pc' = "a_error"
                          /\ UNCHANGED <<understanding, sources>>
                     ELSE /\ understanding' = reply.content
                          /\ sources' = BuildSources(all_webpages, {})
                          /\ Yield(MakeProgressEvent(seq', <<"analysis_done">>,
                                                     5, 5, 100))
                          /\ pc' = "a_progress100"
                          /\ UNCHANGED last_error
    /\ UNCHANGED <<request, response, keywords, kw_reply, pending, done_q, search_calls,
                   completed, all_webpages, all_formatted, source_count,
                   attempt, tree, kw_calls>>

\* 10.-12. the understanding call; on its result the source list is built and
\* PROGRESS 100 is yielded, on its exception the except branch yields ERROR.
AnalyzeUnderstanding ==
    /\ pc = "a_progress75"
    /\ prompt' = UnderstandingPrompt(request.query,
                                     Cut(AnalyzeContext(all_formatted),
                                         AnalyzeContextCap))
    /\ \E reply \in UnderstandingReplies :
          /\ synth_replies' = Append(synth_replies, reply)
          /\ seq' = seq + 1
          /\ IF reply.raised # NoError
             THEN /\ last_error' = reply.raised
                  /\ Yield(AnalyzeErrorEvent(seq', reply.raised))
                  /\ pc' = "a_error"
                  /\ UNCHANGED <<understanding, sources>>
             ELSE /\ understanding' = reply.content
                  /\ sources' = BuildSources(all_webpages, {})
                  /\ Yield(MakeProgressEvent(seq', <<"analysis_done">>, 5, 5, 100))
                  /\ pc' = "a_progress100"
                  /\ UNCHANGED last_error
    /\ UNCHANGED <<request, response, keywords, kw_reply, pending, done_q, search_calls,
                   completed, all_webpages, all_formatted, source_count,
                   attempt, tree, kw_calls>>

\* the completed event built without the source list
AnalyzeCompleted_no_sources ==
    /\ pc = "a_progress100"
    /\ seq' = seq + 1
    /\ Yield(MakeEvent("completed", seq',
                       [success |-> TRUE, understanding |-> understanding],
                       <<"analyze_completed">>))
    /\ pc' = "a_completed"
    /\ UNCHANGED <<request, prompt, response, keywords, kw_reply, pending, done_q, search_calls,
                   completed, all_webpages, all_formatted, source_count,
                   understanding, sources, attempt, tree, last_error,
                   synth_replies, kw_calls>>

\* 13. COMPLETED
AnalyzeCompleted ==
    /\ pc = "a_progress100"
    /\ seq' = seq + 1
    /\ Yield(MakeEvent("completed", seq',
                       [success |-> TRUE, understanding |-> understanding,
                        sources |-> sources],
                       <<"analyze_completed">>))
    /\ pc' = "a_completed"
    /\ UNCHANGED <<request, prompt, response, keywords, kw_reply, pending, done_q, search_calls,
                   completed, all_webpages, all_formatted, source_count,
                   understanding, sources, attempt, tree, last_error,
                   synth_replies, kw_calls>>

\* the generator returns after its last yield; the wrapper's loop ends
AnalyzeReturn ==
    /\ pc \in {"a_completed", "a_error"}
    /\ pc' = "done"
    /\ WrapperOnStop
    /\ UNCHANGED <<request, prompt, response, seq, keywords, kw_reply, pending, done_q,
                   search_calls, completed, all_webpages, all_formatted,
                   source_count, understanding, sources, attempt, tree,
                   last_error, synth_replies, kw_calls, stub>>

Analyze ==
    \/ AnalyzeStart
    \/ AnalyzeProgressKeywords
    \/ AnalyzeKeywords
    \/ AnalyzeProgressSearch
    \/ AnalyzeSpawn
    \/ AnalyzeJoin
    \/ AnalyzeSearchProgress
    \/ AnalyzeNextSearch
    \/ AnalyzeSearchDone
    \/ AnalyzeAnalyzing
    \/ AnalyzeProgressUnderstanding
    \/ AnalyzeUnderstanding
    \/ AnalyzeCompleted
    \/ AnalyzeReturn

\* --------------------------------------------------------- generate_stream
\* the except branch without its `seq += 1`
GenerateErrorEvent_stale_seq(s, e) ==
    MakeEvent("error", s - 1, NoData, <<"generate_failed_retry_later">>)

\* The error event of the except branch of generate_stream; e is the exception.
GenerateErrorEvent(s, e) ==
    MakeEvent("error", s, NoData, <<"generate_failed_retry_later">>)

\* pct = 25 + int(25 * completed / kw_count)
RefinePct(c, kw_count) == 25 + ((25 * c) \div kw_count)

\* json.dumps(request.tree, ensure_ascii=False, indent=2): the members of a
\* dict in insertion order, a key token standing for `"key": `, a "," token
\* for the separator with its line break and indentation.
RECURSIVE DumpsMembers(_), DumpsItems(_)
DumpsDict(d) == <<Tok("{")>> \o DumpsMembers(d) \o <<Tok("}")>>

DumpsValue(v) ==
    IF v.kind = "str"
    THEN << <<"s", v.str>> >>
    ELSE <<Tok("[")>> \o DumpsItems(v.items) \o <<Tok("]")>>

DumpsMembers(d) ==
    IF d = <<>>
    THEN <<>>
    ELSE << <<"key", Head(d).key>> >> \o DumpsValue(Head(d).val)
         \o (IF Tail(d) = <<>> THEN <<>> ELSE <<Tok(",")>>)
         \o DumpsMembers(Tail(d))

DumpsItems(items) ==
    IF items = <<>>
    THEN <<>>
    ELSE DumpsDict(Head(items))
         \o (IF Tail(items) = <<>> THEN <<>> ELSE <<Tok(",")>>)
         \o DumpsItems(Tail(items))

JsonDumps(d) == DumpsDict(d)

\* search_context of refine mode
RefineContext(formatted) ==
    IF formatted = <<>> THEN <<Tok("no_supplement_found")>> ELSE Join(formatted)

\* search_context[:10000]
RefineContextCap == 10000

\* the template with current_tree cut like search_context
RefinePrompt_cut_tree(query, current_tree, feedback, search_context) ==
    << <<"REFINE_PROMPT", 1>>, Field(query), <<"REFINE_PROMPT", 2>> >>
    \o Take(current_tree, 3)
    \o << <<"REFINE_PROMPT", 3>>, Field(feedback), <<"REFINE_PROMPT", 4>> >>
    \o search_context
    \o << <<"REFINE_PROMPT", 5>> >>

\* REFINE_PROMPT.format(query=, current_tree=, feedback=, search_context=):
\* the five pieces of the template around the four arguments.
RefinePrompt(query, current_tree, feedback, search_context) ==
    << <<"REFINE_PROMPT", 1>>, Field(query), <<"REFINE_PROMPT", 2>> >>
    \o current_tree
    \o << <<"REFINE_PROMPT", 3>>, Field(feedback), <<"REFINE_PROMPT", 4>> >>
    \o search_context
    \o << <<"REFINE_PROMPT", 5>> >>

\* CHAIN_PROMPT.format(query=, understanding=)
ChainPrompt(query, und) ==
    << <<"CHAIN_PROMPT", 1>>, Field(query), <<"CHAIN_PROMPT", 2>>, Field(und),
       <<"CHAIN_PROMPT", 3>> >>

\* The prompt of the synthesis call, built before the retry loop.
BuildPrompt ==
    IF is_refine
    THEN RefinePrompt(request.query, JsonDumps(RequestTrees[request.tree]),
                      request.feedback,
                      Cut(RefineContext(all_formatted), RefineContextCap))
    ELSE ChainPrompt(request.query, request.understanding)

\* a loop that gives up after the first failure
RetryAgain_never(a) == FALSE

\* a loop that runs one attempt too many
RetryAgain_one_more(a) == a <= max_attempts

\* What the retry loop does after a failed attempt: TRUE when it goes on to
\* another attempt (attempt < max_attempts), FALSE when the loop is over.
RetryAgain(a) == a < max_attempts

\* 1. STARTED
GenerateStart ==
    /\ pc = "g_init"
    /\ seq' = seq + 1
    /\ Yield(MakeEvent("started", seq',
                       [query |-> request.query,
                        mode |-> IF is_refine THEN "refine" ELSE "generate"],
                       <<"generate_start", request.query>>))
    /\ pc' = "g_started"
    /\ UNCHANGED <<request, prompt, response, keywords, kw_reply, pending, done_q, search_calls,
                   completed, all_webpages, all_formatted, source_count,
                   understanding, sources, attempt, tree, last_error,
                   synth_replies, kw_calls>>

\* generate mode: GENERATING
GenerateGenerating ==
    /\ pc = "g_started"
    /\ ~is_refine
    /\ seq' = seq + 1
    /\ Yield(MakeEvent("generating", seq', NoData, <<"generating_tree">>))
    /\ pc' = "g_await_llm"
    /\ UNCHANGED <<request, prompt, response, keywords, kw_reply, pending, done_q, search_calls,
                   completed, all_webpages, all_formatted, source_count,
                   understanding, sources, attempt, tree, last_error,
                   synth_replies, kw_calls>>

\* 2a. refine mode: PROGRESS 10
RefineProgressKeywords ==
    /\ pc = "g_started"
    /\ is_refine
    /\ seq' = seq + 1
    /\ Yield(MakeProgressEvent(seq', <<"generating_refine_keywords">>, 0, 4, 10))
    /\ pc' = "r_progress10"
    /\ UNCHANGED <<request, prompt, response, keywords, kw_reply, pending, done_q, search_calls,
                   completed, all_webpages, all_formatted, source_count,
                   understanding, sources, attempt, tree, last_error,
                   synth_replies, kw_calls>>

\* the keyword call of refine mode, then KEYWORD_GENERATED
RefineKeywordStep ==
    /\ pc = "r_progress10"
    /\ \E reply \in KwReplies :
          /\ kw_reply' = reply
          /\ keywords' = RefineKeywords(reply)
    /\ kw_calls' = kw_calls + 1
    /\ seq' = seq + 1
    /\ Yield(MakeEvent("keyword_generated", seq', [keywords |-> keywords'],
                       <<"refine_keywords_generated", Len(keywords')>>))
    /\ pc' = "r_keywords"
    /\ UNCHANGED <<request, prompt, response, pending, done_q, search_calls, completed,
                   all_webpages, all_formatted, source_count, understanding,
                   sources, attempt, tree, last_error, synth_replies>>

\* 2b. PROGRESS 25
RefineProgressSearch ==
    /\ pc = "r_keywords"
    /\ seq' = seq + 1
    /\ Yield(MakeProgressEvent(seq', <<"searching_supplement">>, 1, 4, 25))
    /\ pc' = "r_progress25"
    /\ kw_reply' = NoReply
    /\ UNCHANGED <<request, prompt, response, keywords, pending, done_q, search_calls,
                   completed, all_webpages, all_formatted, source_count,
                   understanding, sources, attempt, tree, last_error,
                   synth_replies, kw_calls>>

\* the tasks are created and the as_completed loop awaits the first one
RefineSpawn ==
    /\ pc = "r_progress25"
    /\ Len(keywords) > 0
    /\ SpawnTasks(keywords)
    /\ pc' = "r_await_search"
    /\ UNCHANGED <<request, prompt, response, seq, keywords, kw_reply, all_webpages,
                   all_formatted, source_count, understanding, sources,
                   attempt, tree, last_error, synth_replies, kw_calls,
                   wseq, out, wpc, stub>>

\* no keyword: no task, the loop body never runs; 2c. PROGRESS 55
RefineNoSearch ==
    /\ pc = "r_progress25"
    /\ Len(keywords) = 0
    /\ SpawnTasks(keywords)
    /\ seq' = seq + 1
    /\ Yield(MakeProgressEvent(seq', <<"refining_tree">>, 2, 4, 55))
    /\ pc' = "g_await_llm"
    /\ UNCHANGED <<request, prompt, response, keywords, kw_reply, all_webpages, all_formatted,
                   source_count, understanding, sources, attempt, tree,
                   last_error, synth_replies, kw_calls>>

\* `keyword, res, err = await coro` returns the next finished task and
\* WEB_RESULT is yielded; an exception that ended the task is re-raised by
\* the await and handled by the except branch.
RefineJoin ==
    /\ pc = "r_await_search"
    /\ completed < Len(done_q)
    /\ LET r == done_q[completed + 1]
       IN /\ seq' = seq + 1
          /\ IF r.escaped # NoError
             THEN /\ last_error' = r.escaped
                  /\ Yield(GenerateErrorEvent(seq', r.escaped))
                  /\ pc' = "g_error"
                  /\ UNCHANGED <<completed, all_formatted>>
             ELSE /\ completed' = completed + 1
                  /\ all_formatted' =
                        (IF r.err = NoError /\ UsableText(r.formatted_text)
                         THEN Append(all_formatted, r.formatted_text)
                         ELSE all_formatted)
                  /\ Yield(WebResultEvent(seq', r, "refine_search_failed",
                                          <<"refine_search_done", r.keyword>>))
                  /\ pc' = "r_web_result"
                  /\ UNCHANGED last_error
    /\ UNCHANGED <<request, prompt, response, keywords, kw_reply, pending, done_q, search_calls,
                   all_webpages, source_count, understanding, sources, attempt,
                   tree, synth_replies, kw_calls>>

\* the progress event of the loop body
RefineSearchProgress ==
    /\ pc = "r_web_result"
    /\ seq' = seq + 1
    /\ Yield(MakeProgressEvent(seq',
                               <<"refine_searches_done", completed, Len(keywords)>>,
                               1, 4, RefinePct(completed, Len(keywords))))
    /\ pc' = "r_search_progress"
    /\ UNCHANGED <<request, prompt, response, keywords, kw_reply, pending, done_q, search_calls,
                   completed, all_webpages, all_formatted, source_count,
                   understanding, sources, attempt, tree, last_error,
                   synth_replies, kw_calls>>

\* the loop goes on to await the next task
RefineNextSearch ==
    /\ pc = "r_search_progress"
    /\ completed < NumTasks
    /\ pc' = "r_await_search"
    /\ UNCHANGED <<request, prompt, response, seq, keywords, kw_reply, pending, done_q,
                   search_calls, completed, all_webpages, all_formatted,
                   source_count, understanding, sources, attempt, tree,
                   last_error, synth_replies, kw_calls, wseq, out, wpc, stub>>

\* 2c. the loop is over: PROGRESS 55
RefineSearchDone ==
    /\ pc = "r_search_progress"
    /\ completed = NumTasks
    /\ seq' = seq + 1
    /\ Yield(MakeProgressEvent(seq', <<"refining_tree">>, 2, 4, 55))
    /\ pc' = "g_await_llm"
    /\ UNCHANGED <<request, prompt, response, keywords, kw_reply, pending, done_q, search_calls,
                   completed, all_webpages, all_formatted, source_count,
                   understanding, sources, attempt, tree, last_error,
                   synth_replies, kw_calls>>

\* the retry loop without the `if tree is None: raise` after it: when the
\* attempts are used up the generator returns without a terminal event
GenerateAttempt_fall_through ==
    /\ pc = "g_await_llm"
    /\ prompt' = (IF attempt = 0 THEN BuildPrompt ELSE prompt)
    /\ \E reply \in SynthReplies :
          LET res == TryParseTree(reply)
          IN /\ synth_replies' = Append(synth_replies, reply)
             /\ attempt' = attempt + 1
             /\ IF res.ok
                THEN /\ tree' = res.tree
                     /\ seq' = seq + 1
                     /\ Yield(MakeEvent("completed", seq',
                                        [success |-> TRUE, tree |-> res.tree],
                                        <<"generate_completed">>))
                     /\ pc' = "g_completed"
                     /\ UNCHANGED last_error
                ELSE /\ last_error' = res.error
                     /\ UNCHANGED <<tree, seq, wseq, out, wpc, stub>>
                     /\ pc' = (IF RetryAgain(attempt')
                               THEN "g_await_llm" ELSE "g_error")
    /\ UNCHANGED <<request, response, keywords, kw_reply, pending, done_q, search_calls,
                   completed, all_webpages, all_formatted, source_count,
                   understanding, sources, kw_calls>>

\* One pass of the retry loop: the synthesis call, extraction and validation
\* (before the first pass, the prompt is built).
\* A tree breaks the loop and COMPLETED is yielded; a failure is recorded in
\* last_error and either the loop goes on to the next call or, after the last
\* attempt, `tree is None` raises and the except branch yields ERROR.
GenerateAttempt ==
    /\ pc = "g_await_llm"
    /\ prompt' = (IF attempt = 0 THEN BuildPrompt ELSE prompt)
    /\ \E reply \in SynthReplies :
          LET res == TryParseTree(reply)
          IN /\ synth_replies' = Append(synth_replies, reply)
             /\ attempt' = attempt + 1
             /\ IF res.ok
                THEN /\ tree' = res.tree
                     /\ seq' = seq + 1
                     /\ Yield(MakeEvent("completed", seq',
                                        [success |-> TRUE, tree |-> res.tree],
                                        <<"generate_completed">>))
                     /\ pc' = "g_completed"
                     /\ UNCHANGED last_error
                ELSE /\ last_error' = res.error
                     /\ UNCHANGED tree
                     /\ IF RetryAgain(attempt')
                        THEN /\ pc' = "g_await_llm"
                             /\ UNCHANGED <<seq, wseq, out, wpc, stub>>
                        ELSE /\ seq' = seq + 1
                             /\ Yield(GenerateErrorEvent(seq', res.error))
                             /\ pc' = "g_error"
    /\ UNCHANGED <<request, response, keywords, kw_reply, pending, done_q, search_calls,
                   completed, all_webpages, all_formatted, source_count,
                   understanding, sources, kw_calls>>

\* the generator returns after its last yield; the wrapper's loop ends
GenerateReturn ==
    /\ pc \in {"g_completed", "g_error"}
    /\ pc' = "done"
    /\ WrapperOnStop
    /\ UNCHANGED <<request, prompt, response, seq, keywords, kw_reply, pending, done_q,
                   search_calls, completed, all_webpages, all_formatted,
                   source_count, understanding, sources, attempt, tree,
                   last_error, synth_replies, kw_calls, stub>>

Generate ==
    \/ GenerateStart
    \/ GenerateGenerating
    \/ RefineProgressKeywords
    \/ RefineKeywordStep
    \/ RefineProgressSearch
    \/ RefineSpawn
    \/ RefineNoSearch
    \/ RefineJoin
    \/ RefineSearchProgress
    \/ RefineNextSearch
    \/ RefineSearchDone
    \/ GenerateAttempt
    \/ GenerateReturn

\* ------------------------------------------- search_related_enterprises
\* A JSON object {"name": , "description": , "role": } of an enterprise list.
EntTok(i) == <<"e", i>>

\* <<"[", e1, ..., en, "]">>
EntList(n) == <<Tok("[")>> \o [i \in 1..n |-> EntTok(i)] \o <<Tok("]")>>

\* Texts the language model may return to the enterprise prompt.
EnterpriseTexts ==
    {EntList(n) : n \in {0, 1, EnterpriseCap, MaxEnterprises}}
    \cup {<<Tok("p"), Tok("F"), Tok("J"), Tok("W")>> \o EntList(1)
             \o <<Tok("W"), Tok("F"), Tok("p")>>,
          <<Tok("p")>> \o EntList(2) \o <<Tok("p")>>,
          <<Tok("p"), Tok("p")>>,
          <<Tok("["), EntTok(1)>>,
          <<Tok("["), EntTok(1), Tok("p"), Tok("]")>>,
          <<Tok("p"), Tok("["), EntTok(1), Tok("["), Tok("p"), Tok("]"),
            Tok("]"), Tok("p"), Tok("]")>>,
          <<Tok("p")>> \o EntList(2) \o <<Tok("p"), Tok("]")>>,
          <<Tok("{"), Tok("I"), Tok("}")>>}

EnterpriseReplies ==
    {Raised(k) : k \in LlmErrors} \cup {Content(t) : t \in EnterpriseTexts}

\* The three queries built from node_name and chain_definition[:50].
queries == [i \in 1..3 |-> <<"eq", i>>]

\* json.loads of an extracted array: the list of its elements, or failure.
JsonLoadsArray(span) ==
    IF /\ Len(span) >= 2
       /\ span[1][1] = "["
       /\ span[Len(span)][1] = "]"
       /\ \A i \in 2..(Len(span) - 1) : span[i][1] = "e"
    THEN [ok |-> TRUE, value |-> SubSeq(span, 2, Len(span) - 1)]
    ELSE [ok |-> FALSE, value |-> <<>>]

\* the body of the retry loop returning the whole list
TryParseEnterprises_uncut(reply) ==
    IF reply.raised # NoError
    THEN [ok |-> FALSE, value |-> <<>>, error |-> reply.raised]
    ELSE LET x == ExtractJsonArray(reply.content)
             parsed == JsonLoadsArray(x.span)
         IN IF ~x.ok
            THEN [ok |-> FALSE, value |-> <<>>, error |-> "ValueError"]
            ELSE IF ~parsed.ok
                 THEN [ok |-> FALSE, value |-> <<>>, error |-> "JSONDecodeError"]
                 ELSE [ok |-> TRUE, value |-> parsed.value, error |-> NoError]

\* One pass of the body of the retry loop of search_related_enterprises on
\* a reply: the list returned, or the exception that was caught.
TryParseEnterprises(reply) ==
    IF reply.raised # NoError
    THEN [ok |-> FALSE, value |-> <<>>, error |-> reply.raised]
    ELSE LET x == ExtractJsonArray(reply.content)
             parsed == JsonLoadsArray(x.span)
         IN IF ~x.ok
            THEN [ok |-> FALSE, value |-> <<>>, error |-> "ValueError"]
            ELSE IF ~parsed.ok
                 THEN [ok |-> FALSE, value |-> <<>>, error |-> "JSONDecodeError"]
                 ELSE [ok |-> TRUE, value |-> Take(parsed.value, EnterpriseCap),
                       error |-> NoError]

\* search_context of the lookup
LookupContext(formatted) ==
    IF formatted = <<>> THEN <<Tok("no_results_found")>> ELSE Join(formatted)

\* ENTERPRISE_EXTRACT_PROMPT.format(node_name=, chain_definition=,
\* search_context=)
EnterprisePrompt(node_name, chain_definition, search_context) ==
    << <<"ENTERPRISE_EXTRACT_PROMPT", 1>>, Field(node_name),
       <<"ENTERPRISE_EXTRACT_PROMPT", 2>>, Field(chain_definition),
       <<"ENTERPRISE_EXTRACT_PROMPT", 3>> >>
    \o search_context
    \o << <<"ENTERPRISE_EXTRACT_PROMPT", 4>> >>

\* a lookup that allows a third extraction call
LookupRetryAgain_third(a) == a < lookup_max_attempts + 1

\* `attempt < max_attempts` after a failed attempt of the lookup.
LookupRetryAgain(a) == a < lookup_max_attempts

\* The response of the endpoint when the service returns a list.
EndpointOnReturn(node_name, enterprises) ==
    [status |-> 200, success |-> TRUE, node_name |-> node_name,
     enterprises |-> enterprises,
     message |-> <<"found_enterprises", Len(enterprises)>>]

\* the endpoint answering a failure with an empty success response
EndpointOnError_empty_success(e) ==
    [status |-> 200, success |-> TRUE, node_name |-> "node",
     enterprises |-> <<>>, message |-> <<"found_enterprises", 0>>]

\* The except branch of the endpoint: HTTPException(500); e is the exception.
EndpointOnError(e) ==
    [status |-> 500, detail |-> <<"enterprise_search_failed_retry_later">>]

\* The queries are built and the three search tasks created; the loop
\* awaits the first one.
LookupStart ==
    /\ pc = "e_init"
    /\ keywords' = queries
    /\ SpawnTasks(queries)
    /\ pc' = "e_await_search"
    /\ UNCHANGED <<request, prompt, response, seq, kw_reply, all_webpages,
                   all_formatted, source_count, understanding, sources,
                   attempt, tree, last_error, synth_replies, kw_calls,
                   wseq, out, wpc, stub>>

\* the loop raising the error of a failed search instead of `continue`
LookupJoin_raise_on_failed ==
    /\ pc = "e_await_search"
    /\ completed < Len(done_q)
    /\ LET r == done_q[completed + 1]
       IN IF r.escaped # NoError \/ r.err # NoError
          THEN /\ last_error' = (IF r.err # NoError THEN r.err ELSE r.escaped)
               /\ response' = EndpointOnError(last_error')
               /\ pc' = "done"
               /\ UNCHANGED <<completed, all_formatted, prompt>>
          ELSE /\ completed' = completed + 1
               /\ all_formatted' =
                     (IF UsableText(r.formatted_text)
                      THEN Append(all_formatted, r.formatted_text)
                      ELSE all_formatted)
               /\ IF completed' = NumTasks
                  THEN /\ prompt' = EnterprisePrompt(
                                       request.node_name,
                                       request.chain_definition,
                                       Cut(LookupContext(all_formatted'),
                                           LookupContextCap))
                       /\ pc' = "e_await_llm"
                  ELSE UNCHANGED <<prompt, pc>>
               /\ UNCHANGED <<last_error, response>>
    /\ UNCHANGED <<request, seq, keywords, kw_reply, pending, done_q,
                   search_calls, all_webpages, source_count, understanding,
                   sources, attempt, tree, synth_replies, kw_calls,
                   wseq, out, wpc, stub>>

\* `keyword, res, err = await coro` returns the next finished task: a failed
\* search is skipped, a usable text is kept.  After the last task the prompt
\* is built and the first call awaited.  An exception that ended the task is
\* re-raised by the await and leaves the service.
LookupJoin ==
    /\ pc = "e_await_search"
    /\ completed < Len(done_q)
    /\ LET r == done_q[completed + 1]
       IN IF r.escaped # NoError
          THEN /\ last_error' = r.escaped
               /\ response' = EndpointOnError(r.escaped)
               /\ pc' = "done"
               /\ UNCHANGED <<completed, all_formatted, prompt>>
          ELSE /\ completed' = completed + 1
               /\ all_formatted' =
                     (IF r.err = NoError /\ UsableText(r.formatted_text)
                      THEN Append(all_formatted, r.formatted_text)
                      ELSE all_formatted)
               /\ IF completed' = NumTasks
                  THEN /\ prompt' = EnterprisePrompt(
                                       request.node_name,
                                       request.chain_definition,
                                       Cut(LookupContext(all_formatted'),
                                           LookupContextCap))
                       /\ pc' = "e_await_llm"
                  ELSE UNCHANGED <<prompt, pc>>
               /\ UNCHANGED <<last_error, response>>
    /\ UNCHANGED <<request, seq, keywords, kw_reply, pending, done_q,
                   search_calls, all_webpages, source_count, understanding,
                   sources, attempt, tree, synth_replies, kw_calls,
                   wseq, out, wpc, stub>>

\* One pass of the retry loop: the extraction call, _extract_json_array and
\* json.loads.  A list is returned to the endpoint, which answers with it; a
\* failure is recorded and either the loop goes on or, after the last
\* attempt, ValueError is raised and the endpoint answers 500.
LookupAttempt ==
    /\ pc = "e_await_llm"
    /\ \E reply \in EnterpriseReplies :
          LET res == TryParseEnterprises(reply)
          IN /\ synth_replies' = Append(synth_replies, reply)
             /\ attempt' = attempt + 1
             /\ IF res.ok
                THEN /\ response' = EndpointOnReturn(request.node_name, res.value)
                     /\ pc' = "done"
                     /\ UNCHANGED last_error
                ELSE /\ last_error' = res.error
                     /\ IF LookupRetryAgain(attempt')
                        THEN UNCHANGED <<pc, response>>
                        ELSE /\ response' = EndpointOnError("ValueError")
                             /\ pc' = "done"
    /\ UNCHANGED <<request, prompt, seq, keywords, kw_reply, pending, done_q,
                   search_calls, completed, all_webpages, all_formatted,
                   source_count, understanding, sources, tree, kw_calls,
                   wseq, out, wpc, stub>>

Lookup == LookupStart \/ LookupJoin \/ LookupAttempt

Next == Analyze \/ Generate \/ SearchTask \/ StubIter \/ Lookup

Spec == Init /\ [][Next]_vars

\* The event loop resumes a coroutine that is ready to run (the pipeline, the
\* lookup, the wrapper's iterator), and every search call returns or raises.
FairSpec ==
    /\ Init
    /\ [][Next]_vars
    /\ WF_vars(Analyze \/ Generate \/ Lookup \/ StubIter)
    /\ WF_vars(SearchTask)

\* The events delivered on the wire, in order.
Stream == [i \in 1..(Len(out) \div 2) |-> out[2 * i].body]

TypeOK == Len(out) % 2 = 0

\* ------------------------------------------------------------- properties
Terminal == {"completed", "error"}

IsPipeline == request.op \in {"analyze", "generate"}

Last(sq) == sq[Len(sq)]

\* Positions of the stream that hold an event of type t.
At(t) == {i \in 1..Len(Stream) : Stream[i].event_type = t}

\* The web_result events of the stream, in order.
WebResults == SelectSeq(Stream, LAMBDA e : e.event_type = "web_result")

\* The pipeline is past its as_completed loop.
FanOutOver ==
    /\ request.op = "analyze" \/ is_refine
    /\ pc \in {"a_progress60", "a_analyzing", "a_progress75", "a_progress100",
               "a_completed", "a_error", "g_await_llm", "g_completed",
               "g_error", "done"}

\* The reply is a text the synthesis step cannot turn into a tree.
Malformed(reply) == reply.raised = NoError /\ ~TryParseTree(reply).ok

\* C1: in every stream of analyze_stream and generate_stream the i-th event
\* carries sequence_number i: the first is 1 and each later one is the
\* previous plus 1, on every path.
C1_SequenceNumbers ==
    IsPipeline => \A i \in 1..Len(Stream) : Stream[i].sequence_number = i

\* A refine stream that ended in error after two failed attempts and a failed
\* search.
C1_Witness ==
    /\ pc = "done"
    /\ is_refine
    /\ Len(synth_replies) = 2
    /\ Last(Stream).event_type = "error"
    /\ \E j \in 1..Len(done_q) : done_q[j].err # NoError

\* C2: a stream delivered through the wrapper never has a terminal event
\* before its last position, and once the stream has ended its last event is
\* a terminal one: exactly one terminal event, and nothing after it.
C2_OneTerminalLast ==
    IsPipeline =>
        /\ \A i \in 1..(Len(Stream) - 1) : Stream[i].event_type \notin Terminal
        /\ wpc # "open" =>
              /\ Len(Stream) >= 1
              /\ Last(Stream).event_type \in Terminal
              /\ Cardinality(At("completed") \cup At("error")) = 1

\* An Analyze stream that ended with completed.
C2_Witness ==
    /\ request.op = "analyze"
    /\ wpc = "closed"
    /\ Last(Stream).event_type = "completed"

\* The largest sequence_number of the events a stub delivered, 0 if none.
StubLargest ==
    IF stub.items = <<>>
    THEN 0
    ELSE CHOOSE m \in {stub.items[i].sequence_number : i \in 1..Len(stub.items)} :
            \A i \in 1..Len(stub.items) : stub.items[i].sequence_number <= m

\* C3: when the iterator raises after its events, the wrapper has written
\* those events and exactly one more, an error event whose sequence_number is
\* the largest one delivered plus 1, and has ended.
C3_WrapperErrorAfterRaise ==
    (request.op = "stub" /\ wpc = "closed_on_error") =>
        /\ Len(Stream) = Len(stub.items) + 1
        /\ \A i \in 1..Len(stub.items) : Stream[i] = stub.items[i]
        /\ Last(Stream).event_type = "error"
        /\ Last(Stream).sequence_number = StubLargest + 1

\* The iterator raised after delivering events with decreasing numbers.
C3_Witness ==
    /\ request.op = "stub"
    /\ wpc = "closed_on_error"
    /\ Len(stub.items) >= 2
    /\ stub.items[1].sequence_number > stub.items[2].sequence_number

\* C4: the number of web_result events equals the number of joined searches
\* and, once the fan-out is over, the number of keywords, one event per
\* keyword; the event of a failed search has result_count 0.
C4_OneWebResultPerKeyword ==
    IsPipeline =>
        LET R == WebResults
        IN /\ Len(R) = completed
           /\ FanOutOver =>
                 /\ Len(R) = Len(keywords)
                 /\ \A i \in 1..Len(keywords) :
                       Cardinality({j \in 1..Len(R) :
                                       R[j].data.keyword = keywords[i]}) = 1
                 /\ \A j \in 1..Len(R) :
                       /\ R[j].data.keyword = done_q[j].keyword
                       /\ done_q[j].err # NoError =>
                             R[j].data.result_count = 0

\* An Analyze stream over 5 keywords, some searches failed and some succeeded.
C4_Witness ==
    /\ request.op = "analyze"
    /\ pc = "done"
    /\ Len(keywords) = 5
    /\ \E j \in 1..Len(done_q) : done_q[j].err # NoError
    /\ \E j \in 1..Len(done_q) : done_q[j].err = NoError
    /\ Len(WebResults) = 5

\* C5: in generate_stream, after a first reply that yields no tree the stream
\* is still open and the call is made again; when the second reply holds a
\* valid tree there are exactly 2 calls, one completed event and no error.
C5_RetrySucceeds ==
    (/\ request.op = "generate"
     /\ Len(synth_replies) >= 1
     /\ Malformed(synth_replies[1])) =>
        /\ Len(synth_replies) = 1 =>
              /\ pc = "g_await_llm"
              /\ At("completed") \cup At("error") = {}
        /\ (Len(synth_replies) >= 2 /\ TryParseTree(synth_replies[2]).ok) =>
              /\ Len(synth_replies) = 2
              /\ Cardinality(At("completed")) = 1
              /\ At("error") = {}
              /\ Last(Stream).event_type = "completed"

\* A stream that completed on its second attempt.
C5_Witness ==
    /\ request.op = "generate"
    /\ pc = "done"
    /\ Len(synth_replies) = 2
    /\ Malformed(synth_replies[1])
    /\ TryParseTree(synth_replies[2]).ok

\* C6: in generate_stream, when every reply is malformed there are never more
\* than max_attempts calls, and after the max_attempts-th one the stream has
\* exactly one error event and no completed event; before it, the stream has
\* no terminal event.
C6_RetryExhausted ==
    (/\ request.op = "generate"
     /\ \A i \in 1..Len(synth_replies) : Malformed(synth_replies[i])) =>
        /\ Len(synth_replies) <= 2
        /\ Len(synth_replies) = 2 =>
              /\ pc \in {"g_error", "done"}
              /\ Cardinality(At("error")) = 1
              /\ At("completed") = {}
        /\ Len(synth_replies) < 2 => At("completed") \cup At("error") = {}

\* A stream that ended after two malformed replies.
C6_Witness ==
    /\ request.op = "generate"
    /\ pc = "done"
    /\ Len(synth_replies) = 2
    /\ \A i \in 1..2 : Malformed(synth_replies[i])

\* The message of the error events of each source.
GenericMessage ==
    [analyze |-> <<"analyze_failed_retry_later">>,
     generate |-> <<"generate_failed_retry_later">>,
     stub |-> <<"internal_error_retry_later">>]

\* C7: every error event carries the fixed message of its pipeline (of the
\* wrapper for a raising iterator) and an empty data mapping, whatever the
\* exception was.
C7_ErrorEventOpaque ==
    \A i \in At("error") :
        /\ Stream[i].message = GenericMessage[request.op]
        /\ Stream[i].data = NoData

\* An Analyze stream that failed on a timeout of the language model.
C7_Witness ==
    /\ request.op = "analyze"
    /\ last_error = "TimeoutError"
    /\ At("error") # {}

\* C8: an error event is never due to a search: a stream that holds one has
\* made its synthesis call and the exception handled was not a search's.
\* Past the fan-out every task has run its search once and has been reported,
\* and every stream that ended has made a synthesis call.
C8_SearchFailureTolerated ==
    IsPipeline =>
        /\ At("error") # {} =>
              /\ Len(synth_replies) >= 1
              /\ last_error # "SearchFailure"
        /\ FanOutOver =>
              /\ pending = {}
              /\ Len(done_q) = Len(keywords)
              /\ \A i \in 1..Len(keywords) : search_calls[i] = 1
              /\ completed = Len(keywords)
        /\ pc = "done" => Len(synth_replies) >= 1

\* An Analyze stream that completed although all 5 searches failed.
C8_Witness ==
    /\ request.op = "analyze"
    /\ pc = "done"
    /\ Len(done_q) = 5
    /\ \A j \in 1..5 : done_q[j].err # NoError
    /\ Last(Stream).event_type = "completed"

\* The reply is a JSON list of n keywords with at most one prose token on
\* either side.
IsListReply(reply, n) ==
    /\ reply.raised = NoError
    /\ \E a \in 0..1, b \in 0..1 :
          reply.content = [i \in 1..a |-> Tok("p")] \o KwList(n)
                          \o [i \in 1..b |-> Tok("p")]

\* C9 as stated: the keyword list of keyword_generated always has exactly 5
\* elements, the model's list only when that list has 5 elements and the
\* defaults otherwise.
C9_Original ==
    (request.op = "analyze" /\ pc = "a_keywords") =>
        /\ Len(keywords) = 5
        /\ Last(Stream).data.keywords = keywords
        /\ keywords = (IF IsListReply(kw_reply, 5)
                       THEN [i \in 1..5 |-> KwTok(i)]
                       ELSE default_keywords)

\* C9 amended: the keyword list of keyword_generated and of the fan-out has
\* between 1 and 5 elements: the first 5 elements of the model's list when
\* the reply holds a non-empty JSON list, and the 5 defaults otherwise.
C9_KeywordList ==
    request.op = "analyze" =>
        /\ pc \notin {"a_init", "a_started", "a_progress10"} =>
              /\ Len(keywords) \in 1..5
              /\ \A i \in At("keyword_generated") :
                    Stream[i].data.keywords = keywords
        /\ pc \in {"a_init", "a_started", "a_progress10", "a_keywords",
                   "a_progress20"}
              \/ NumTasks = Len(keywords)
        /\ pc = "a_keywords" =>
              /\ \A n \in 1..(MaxLlmKeywords + 1) :
                    IsListReply(kw_reply, n) =>
                        keywords = [i \in 1..Min(n, 5) |-> KwTok(i)]
              /\ (\A n \in 1..(MaxLlmKeywords + 1) : ~IsListReply(kw_reply, n))
                    => keywords = default_keywords

\* The model returned a list of 3 keywords, and they are the keyword list.
C9_Witness ==
    /\ request.op = "analyze"
    /\ pc = "a_keywords"
    /\ IsListReply(kw_reply, 3)
    /\ Len(keywords) = 3

Submitted(r) == CHOOSE i \in 1..Len(keywords) : keywords[i] = r.keyword

\* C11: the web_result events of a fan-out follow the order in which the
\* searches completed: of two joined searches, the one that finished first
\* has its web_result in the stream with the smaller sequence_number,
\* whatever the positions of their keywords in the keyword list.
C11_CompletionOrder ==
    IsPipeline =>
        LET W == At("web_result")
        IN \A a, b \in 1..completed :
               a < b =>
                   \E x, y \in W :
                       /\ Stream[x].data.keyword = done_q[a].keyword
                       /\ Stream[y].data.keyword = done_q[b].keyword
                       /\ Stream[x].sequence_number < Stream[y].sequence_number

\* A refine stream whose last keyword finished first and was reported first.
C11_Witness ==
    /\ is_refine
    /\ pc = "done"
    /\ Len(keywords) = 3
    /\ Submitted(done_q[1]) = 3
    /\ Submitted(done_q[3]) = 1
    /\ WebResults[1].data.keyword = keywords[3]

\* The pages returned by the successful searches of a completion queue, in
\* completion order.
RECURSIVE ReturnedPages(_)
ReturnedPages(q) ==
    IF q = <<>>
    THEN <<>>
    ELSE (IF Head(q).err = NoError THEN Head(q).webpages ELSE <<>>)
         \o ReturnedPages(Tail(q))

\* Position of the first page with url u.
FirstWith(pages, u) ==
    CHOOSE i \in 1..Len(pages) :
        /\ pages[i].url = u
        /\ \A j \in 1..(i - 1) : pages[j].url # u

\* C12: the sources of the completed event of Analyze are the deduplicated
\* union of the pages of the successful searches: the urls are pairwise
\* distinct and non-empty, they are exactly the non-empty urls returned, each
\* entry is built from the first page (in completion order) with its url,
\* and the entries are in first-seen order.
C12_SourcesDedup ==
    (request.op = "analyze" /\ At("completed") # {}) =>
        LET src == Stream[CHOOSE i \in At("completed") : TRUE].data.sources
            pages == ReturnedPages(done_q)
        IN /\ \A i, j \in 1..Len(src) : i # j => src[i].url # src[j].url
           /\ \A i \in 1..Len(src) : src[i].url # ""
           /\ {src[i].url : i \in 1..Len(src)}
                 = {pages[k].url : k \in 1..Len(pages)} \ {""}
           /\ \A i \in 1..Len(src) :
                 LET p == pages[FirstWith(pages, src[i].url)]
                 IN /\ src[i].title = p.name
                    /\ src[i].siteName = p.siteName
           /\ \A i, j \in 1..Len(src) :
                 i < j => FirstWith(pages, src[i].url)
                             < FirstWith(pages, src[j].url)

\* A completed Analyze stream in which the third keyword finished before the
\* second, both returning the same two urls in different orders, and a page
\* without url was returned.
C12_Witness ==
    /\ request.op = "analyze"
    /\ At("completed") # {}
    /\ \E a, b \in 1..Len(done_q) :
          /\ a < b
          /\ done_q[a].err = NoError /\ done_q[b].err = NoError
          /\ Submitted(done_q[a]) = 3
          /\ Submitted(done_q[b]) = 2
    /\ Len(Last(Stream).data.sources) = 2
    /\ Last(Stream).data.sources[1].url = "u2"
    /\ Last(Stream).data.sources[1].title = keywords[3]
    /\ \E k \in 1..Len(ReturnedPages(done_q)) : ReturnedPages(done_q)[k].url = ""

\* The request carries both a tree and a feedback.
CarriesBoth == request.tree # "None" /\ request.feedback # "None"

\* C13: generate_stream is in refine mode exactly when the request carries
\* both tree and feedback: the started event says so, and only then are the
\* keyword call and the searches made.  In generate mode no keyword call and
\* no search is made and the stream is started, generating and then one
\* terminal event, nothing else.
C13_ModeSelection ==
    request.op = "generate" =>
        /\ \A i \in At("started") :
              Stream[i].data.mode = (IF CarriesBoth THEN "refine" ELSE "generate")
        /\ CarriesBoth =>
              /\ At("generating") = {}
              /\ pc \notin {"g_init", "g_started", "r_progress10"} => kw_calls = 1
        /\ ~CarriesBoth =>
              /\ kw_calls = 0
              /\ NumTasks = 0 /\ pending = {} /\ done_q = <<>>
              /\ Len(Stream) <= 3
              /\ Len(Stream) >= 1 => Stream[1].event_type = "started"
              /\ Len(Stream) >= 2 => Stream[2].event_type = "generating"
              /\ Len(Stream) >= 3 => Stream[3].event_type \in Terminal
              /\ pc = "done" => Len(Stream) = 3

\* A finished stream of a request that carries a tree but no feedback.
C13_Witness ==
    /\ request.op = "generate"
    /\ request.tree # "None"
    /\ request.feedback = "None"
    /\ pc = "done"
    /\ Len(Stream) = 3
    /\ Len(synth_replies) = 2

\* The refine stream is past its keyword step.
RefineKeywordsKnown ==
    /\ request.op = "generate"
    /\ is_refine
    /\ pc \notin {"g_init", "g_started", "r_progress10"}

\* C14 as stated: in refine mode the keyword_generated event always lists 2
\* or 3 keywords and that many searches are issued.
C14_Original ==
    RefineKeywordsKnown =>
        /\ Len(keywords) \in 2..3
        /\ \A i \in At("keyword_generated") :
              Len(Stream[i].data.keywords) \in 2..3
        /\ FanOutOver => NumTasks = Len(keywords)

\* C14 amended: in refine mode the keyword list has at most 3 elements: the
\* first 3 elements of the model's list when the reply holds a JSON list
\* (the empty list included) and the single fallback keyword otherwise; the
\* keyword_generated event lists exactly these keywords and one search is
\* issued per keyword.
C14_RefineKeywordCount ==
    RefineKeywordsKnown =>
        /\ Len(keywords) \in 0..3
        /\ \A i \in At("keyword_generated") :
              Stream[i].data.keywords = keywords
        /\ pc = "r_keywords" =>
              /\ \A n \in 0..(MaxLlmKeywords + 1) :
                    IsListReply(kw_reply, n) =>
                        keywords = [i \in 1..Min(n, 3) |-> KwTok(i)]
              /\ (\A n \in 0..(MaxLlmKeywords + 1) : ~IsListReply(kw_reply, n))
                    => keywords = <<refine_fallback>>
        /\ pc \notin {"r_keywords", "r_progress25"} =>
              NumTasks = Len(keywords)
        /\ FanOutOver =>
              \A i \in 1..Len(keywords) : search_calls[i] = 1

\* A finished refine stream that searched the single fallback keyword.
C14_Witness ==
    /\ is_refine
    /\ pc = "done"
    /\ keywords = <<refine_fallback>>
    /\ search_calls = <<1>>
    /\ \E i \in At("keyword_generated") : Len(Stream[i].data.keywords) = 1

\* json.loads of a dumped dict, for reading a prompt back: the value and the
\* position after it, ok = FALSE when the tokens are not a JSON value.
LoadsFail == [ok |-> FALSE, val |-> <<>>, next |-> 0]

RECURSIVE LoadsMembers(_, _, _), LoadsItems(_, _, _)
LoadsValue(s, j) ==
    IF j > Len(s)
    THEN LoadsFail
    ELSE IF s[j][1] = "s"
         THEN [ok |-> TRUE, val |-> Str(s[j][2]), next |-> j + 1]
         ELSE IF s[j][1] = "["
              THEN LET r == LoadsItems(s, j + 1, <<>>)
                   IN [ok |-> r.ok, val |-> List(r.val), next |-> r.next]
              ELSE LoadsFail

LoadsDict(s, j) ==
    IF j <= Len(s) /\ s[j][1] = "{" THEN LoadsMembers(s, j + 1, <<>>) ELSE LoadsFail

LoadsMembers(s, j, acc) ==
    IF j > Len(s)
    THEN LoadsFail
    ELSE IF s[j][1] = "}"
         THEN (IF acc = <<>>
               THEN [ok |-> TRUE, val |-> acc, next |-> j + 1]
               ELSE LoadsFail)
         ELSE IF s[j][1] = "key"
              THEN LET v == LoadsValue(s, j + 1)
                       acc2 == Append(acc, Member(s[j][2], v.val))
                   IN IF ~v.ok \/ v.next > Len(s)
                      THEN LoadsFail
                      ELSE IF s[v.next][1] = ","
                           THEN LoadsMembers(s, v.next + 1, acc2)
                           ELSE IF s[v.next][1] = "}"
                                THEN [ok |-> TRUE, val |-> acc2,
                                      next |-> v.next + 1]
                                ELSE LoadsFail
              ELSE LoadsFail

LoadsItems(s, j, acc) ==
    IF j > Len(s)
    THEN LoadsFail
    ELSE IF s[j][1] = "]"
         THEN (IF acc = <<>>
               THEN [ok |-> TRUE, val |-> acc, next |-> j + 1]
               ELSE LoadsFail)
         ELSE LET v == LoadsDict(s, j)
                  acc2 == Append(acc, v.val)
              IN IF ~v.ok \/ v.next > Len(s)
                 THEN LoadsFail
                 ELSE IF s[v.next][1] = ","
                      THEN LoadsItems(s, v.next + 1, acc2)
                      ELSE IF s[v.next][1] = "]"
                           THEN [ok |-> TRUE, val |-> acc2, next |-> v.next + 1]
                           ELSE LoadsFail

\* Positions of the n-th piece of the refine template in the prompt.
PieceAt(n) == {i \in 1..Len(prompt) : prompt[i] = <<"REFINE_PROMPT", n>>}

\* C15: in refine mode the prompt of every synthesis call holds, between the
\* second and the third piece of the template, a text that reads back as
\* exactly the request's tree (every member and item, in the same order),
\* and the prompt is the template filled with the query, that text, the
\* feedback and the search context and nothing else, the same at every
\* attempt.
C15_TreeVerbatim ==
    (request.op = "generate" /\ is_refine) =>
        /\ attempt = 0 => prompt = <<>>
        /\ attempt >= 1 =>
              /\ Cardinality(PieceAt(2)) = 1
              /\ Cardinality(PieceAt(3)) = 1
              /\ LET a == CHOOSE i \in PieceAt(2) : TRUE
                     b == CHOOSE i \in PieceAt(3) : TRUE
                     span == SubSeq(prompt, a + 1, b - 1)
                     r == LoadsDict(span, 1)
                 IN /\ a < b
                    /\ r.ok
                    /\ r.next = Len(span) + 1
                    /\ r.val = RequestTrees[request.tree]
                    /\ prompt =
                          << <<"REFINE_PROMPT", 1>>, Field(request.query),
                             <<"REFINE_PROMPT", 2>> >>
                          \o span
                          \o << <<"REFINE_PROMPT", 3>>, Field(request.feedback),
                                <<"REFINE_PROMPT", 4>> >>
                          \o Cut(RefineContext(all_formatted), RefineContextCap)
                          \o << <<"REFINE_PROMPT", 5>> >>

\* A refine stream of the two-level tree that made both synthesis calls with
\* a search text in its context.
C15_Witness ==
    /\ is_refine
    /\ request.tree = "tree"
    /\ pc = "done"
    /\ attempt = 2
    /\ Len(all_formatted) = 1
    /\ Len(prompt) > 20

\* The reply holds a JSON array of n enterprises: bare, with a prose token on
\* either side (and a closing bracket in the prose after it), or in a fenced
\* block tagged json between prose.
IsArrayReply(reply, n) ==
    /\ reply.raised = NoError
    /\ \/ \E a \in 0..1, b \in 0..1, c \in 0..1 :
             reply.content = [i \in 1..a |-> Tok("p")] \o EntList(n)
                             \o [i \in 1..b |-> Tok("p")]
                             \o [i \in 1..c |-> Tok("]")]
       \/ reply.content = <<Tok("p"), Tok("F"), Tok("J"), Tok("W")>>
                          \o EntList(n) \o <<Tok("W"), Tok("F"), Tok("p")>>

ArrayLens == 0..(MaxEnterprises + 1)

\* C16: an attempt of the lookup whose reply holds a JSON array ends the
\* lookup with success: no further call is made and the list returned is the
\* first 15 elements of the array in order, so a one-element array comes back
\* as it is and an empty array is a success, on the first attempt or on the
\* second after a failed first.
C16_LookupSucceeds ==
    request.op = "enterprises" =>
        /\ Len(synth_replies) <= lookup_max_attempts
        /\ \A i \in 1..Len(synth_replies) : \A n \in ArrayLens :
              IsArrayReply(synth_replies[i], n) =>
                  /\ i = Len(synth_replies)
                  /\ pc = "done"
                  /\ response.status = 200
                  /\ response.success
                  /\ response.enterprises = [k \in 1..Min(n, 15) |-> EntTok(k)]
                  /\ Len(response.enterprises) <= 15

\* The lookup returned an empty list on its second attempt, after a first
\* reply without an array.
C16_Witness ==
    /\ request.op = "enterprises"
    /\ pc = "done"
    /\ Len(synth_replies) = 2
    /\ \A n \in ArrayLens : ~IsArrayReply(synth_replies[1], n)
    /\ IsArrayReply(synth_replies[2], 0)
    /\ response.status = 200
    /\ response.enterprises = <<>>

\* The lookup cut an array of more than 15 enterprises to its first 15.
C16_WitnessCut ==
    /\ request.op = "enterprises"
    /\ pc = "done"
    /\ IsArrayReply(Last(synth_replies), MaxEnterprises)
    /\ Len(response.enterprises) = 15

\* C17: while no reply of the lookup holds a list, at most 2 calls are made;
\* before the second one fails there is no response, and once it has failed
\* the endpoint has answered with status 500 and the fixed detail and nothing
\* else.  A success response is only ever given for a reply that holds a
\* list, and carries that list.
C17_LookupExhausted ==
    request.op = "enterprises" =>
        /\ (\A i \in 1..Len(synth_replies) : \A n \in ArrayLens :
               ~IsArrayReply(synth_replies[i], n)) =>
              /\ Len(synth_replies) <= 2
              /\ Len(synth_replies) < 2 => (pc # "done" /\ response = NoResponse)
              /\ Len(synth_replies) = 2 =>
                    /\ pc = "done"
                    /\ response =
                          [status |-> 500,
                           detail |-> <<"enterprise_search_failed_retry_later">>]
        /\ response # NoResponse => pc = "done"
        /\ response.status \in {0, 200, 500}
        /\ response.status = 200 =>
              \E n \in ArrayLens :
                  /\ IsArrayReply(Last(synth_replies), n)
                  /\ Len(response.enterprises) = Min(n, 15)

\* The lookup failed after a raised call and a reply with an unclosed array.
C17_Witness ==
    /\ request.op = "enterprises"
    /\ pc = "done"
    /\ Len(synth_replies) = 2
    /\ synth_replies[1].raised # NoError
    /\ synth_replies[2] = Content(<<Tok("["), EntTok(1)>>)
    /\ response.status = 500

\* The attempt that received synth_replies[i] ended the loop with tree t.
AttemptGave(i, t) ==
    /\ i = Len(synth_replies)
    /\ tree = t
    /\ pc \in {"g_completed", "done"}
    /\ At("completed") # {}
    /\ Last(Stream).data.tree = t

\* C18: an attempt of generate_stream whose reply is, as a whole, a valid
\* JSON tree object (also one whose string values hold braces or fence
\* markers) does not fail: the extractor returns the whole text and the
\* stream completes with exactly that object.
C18_WholeTextFirst ==
    request.op = "generate" =>
        \A i \in 1..Len(synth_replies) :
            (/\ synth_replies[i].raised = NoError
             /\ ModelValidateJson(synth_replies[i].content)) =>
                AttemptGave(i, synth_replies[i].content)

\* Position of the first fence after position a, 0 when there is none.
NextFence(text, a) ==
    IF \E b \in (a + 1)..Len(text) : text[b][1] = "F"
    THEN CHOOSE b \in (a + 1)..Len(text) :
            /\ text[b][1] = "F"
            /\ \A x \in (a + 1)..(b - 1) : text[x][1] # "F"
    ELSE 0

\* Last position <= i that holds no whitespace token.
RECURSIVE SkipWsBack(_, _)
SkipWsBack(text, i) ==
    IF i >= 1 /\ text[i][1] = "W" THEN SkipWsBack(text, i - 1) ELSE i

\* The content of the first fenced block of a text, without the json tag
\* and the surrounding whitespace; <<>> when the text has no fenced block.
FirstBlock(text) ==
    LET a == Find(text, "F")
        b == IF a = 0 THEN 0 ELSE NextFence(text, a)
        c == IF b > a + 1 /\ text[a + 1][1] = "J" THEN a + 2 ELSE a + 1
    IN IF b = 0 THEN <<>> ELSE SubSeq(text, SkipWs(text, c), SkipWsBack(text, b - 1))

\* C19: an attempt whose reply holds a valid JSON tree in a fenced block
\* (tagged json or not), with any text before and after the block, gives
\* exactly the embedded tree.
C19_FencedRoundTrip ==
    request.op = "generate" =>
        \A i \in 1..Len(synth_replies) :
            (/\ synth_replies[i].raised = NoError
             /\ ModelValidateJson(FirstBlock(synth_replies[i].content))) =>
                AttemptGave(i, FirstBlock(synth_replies[i].content))

\* The data of the progress events of the stream, in order.
Progress ==
    LET ev == SelectSeq(Stream, LAMBDA e : e.event_type = "progress")
    IN [i \in 1..Len(ev) |-> ev[i].data]

\* The stream is one of Analyze or of Refine.
ReportsProgress == request.op = "analyze" \/ (request.op = "generate" /\ is_refine)

\* The percentages are within 0..100 and completed_steps never exceeds
\* total_steps, which is 5 in Analyze and 4 in Refine.
ProgressInRange ==
    LET P == Progress
    IN \A i \in 1..Len(P) :
           /\ P[i].percentage \in 0..100
           /\ P[i].completed_steps \in 0..P[i].total_steps
           /\ P[i].total_steps = (IF request.op = "analyze" THEN 5 ELSE 4)

\* C20 as stated: every progress event has a percentage greater than that of
\* the progress event before it, within 0..100 and with completed_steps at
\* most total_steps.
C20_Original ==
    ReportsProgress =>
        /\ \A i \in 1..(Len(Progress) - 1) :
              Progress[i + 1].percentage > Progress[i].percentage
        /\ ProgressInRange

\* C20 amended: the percentage of a progress event is never smaller than
\* that of the progress event before it; it is equal only in Analyze, where
\* the event that follows the fan-out repeats the 60 of the progress event
\* of the last search, and greater everywhere else; the percentages are
\* within 0..100 and completed_steps never exceeds total_steps.
C20_ProgressMonotone ==
    ReportsProgress =>
        LET P == Progress
        IN /\ \A i \in 1..(Len(P) - 1) :
                 /\ P[i + 1].percentage >= P[i].percentage
                 /\ P[i + 1].percentage = P[i].percentage =>
                       /\ request.op = "analyze"
                       /\ P[i].percentage = 60
                       /\ P[i].completed_steps = 2
                       /\ P[i + 1].completed_steps = 3
           /\ request.op = "analyze" /\ Len(P) >= 3 + Len(keywords) =>
                 P[3 + Len(keywords)].percentage
                    = P[2 + Len(keywords)].percentage
           /\ ProgressInRange

\* A completed Analyze stream over 5 keywords: ten progress events, the
\* seventh and the eighth both at 60.
C20_Witness ==
    /\ request.op = "analyze"
    /\ pc = "done"
    /\ Len(keywords) = 5
    /\ Len(Progress) = 10
    /\ Progress[7].percentage = 60
    /\ Progress[8].percentage = 60
    /\ Progress[10].percentage = 100

\* The stream has ended: the generator returned, the wrapper closed, and the
\* last event written is a terminal one.
StreamEnded ==
    /\ pc = "done"
    /\ wpc = "closed"
    /\ Len(Stream) >= 1
    /\ Last(Stream).event_type \in Terminal

\* C21: when every search call and every language-model call returns or
\* raises, every Analyze, Generate and Refine stream eventually has a terminal
\* event as its last event and has ended.
C21_Terminates == IsPipeline ~> StreamEnded

\* An Analyze stream that fell back to the default keywords, whose searches
\* all failed and whose synthesis call failed, ended with error.
C21_Witness ==
    /\ request.op = "analyze"
    /\ StreamEnded
    /\ keywords = default_keywords
    /\ \A j \in 1..Len(done_q) : done_q[j].err # NoError
    /\ Last(synth_replies).raised # NoError
    /\ Last(Stream).event_type = "error"

\* C22: the chunks _sse_wrapper has written are pairs: an event line carrying
\* the type tag of an event, directly followed by the data line carrying that
\* same event; the pairs are in the order in which the events were received
\* (for a stub iterator: the events it delivered, in its order, then the
\* wrapper's own error event if it raised).
C22_TwoChunkFraming ==
    /\ Len(out) % 2 = 0
    /\ \A i \in 1..(Len(out) \div 2) :
          /\ out[2 * i - 1].line = "event"
          /\ out[2 * i - 1].body = NoData
          /\ out[2 * i].line = "data"
          /\ DOMAIN out[2 * i].body =
                {"event_type", "sequence_number", "data", "message"}
          /\ out[2 * i - 1].value = out[2 * i].body.event_type
          /\ out[2 * i - 1].value \in EventTypes
    /\ request.op = "stub" =>
          /\ Len(out) = 2 * (stub.sent + (IF wpc = "closed_on_error" THEN 1 ELSE 0))
          /\ \A i \in 1..stub.sent : out[2 * i].body = stub.items[i]

\* The wrapper wrote three events of a stub iterator, not all of one type,
\* and ended.
C22_Witness ==
    /\ request.op = "stub"
    /\ wpc = "closed"
    /\ stub.sent = 3
    /\ Len(out) = 6
    /\ stub.items[1].event_type # stub.items[2].event_type

\* A step of a search task: one of the running tasks finishes.
SearchTaskStep == pending' # pending /\ pending' \subseteq pending

\* C23: a step of a search task leaves the sequence counter, the wrapper and
\* the position of the pipeline as they are and only adds its (keyword,
\* result, error) data to the finished results; the counter changes only in
\* a step of the pipeline, by 1 and together with the event that carries the
\* new number; and a web_result event is emitted for a result that was
\* finished before the step, as the pipeline re-joins it.
C23_SeqOwnedByPipeline ==
    [][/\ SearchTaskStep =>
              /\ seq' = seq
              /\ wseq' = wseq
              /\ out' = out
              /\ pc' = pc
              /\ completed' = completed
              /\ Len(done_q') = Len(done_q) + 1
              /\ SubSeq(done_q', 1, Len(done_q)) = done_q
              /\ DOMAIN Last(done_q') =
                    {"keyword", "webpages", "formatted_text", "err", "escaped"}
       /\ seq' # seq =>
              /\ ~SearchTaskStep
              /\ seq' = seq + 1
              /\ Len(out') = Len(out) + 2
              /\ Last(out').body.sequence_number = seq'
       /\ (IsPipeline /\ Len(out') > Len(out)
              /\ Last(out').body.event_type = "web_result") =>
              /\ done_q' = done_q
              /\ completed < Len(done_q)
              /\ completed' = completed + 1
              /\ Last(out').body.data.keyword = done_q[completed'].keyword
      ]_vars

\* Three searches of an Analyze stream have finished while the pipeline has
\* re-joined and numbered only the first.
C23_Witness ==
    /\ request.op = "analyze"
    /\ pc = "a_web_result"
    /\ completed = 1
    /\ Len(done_q) = 3
    /\ seq = 5
    /\ Last(Stream).event_type = "web_result"
    /\ Last(Stream).sequence_number = 5

\* The text holds no fence marker.
NoFence(text) == \A i \in 1..Len(text) : text[i][1] # "F"

\* Scanning on from position i with depth d: the first position where the
\* depth of the bracket kind is back at zero, 0 when there is none.
RECURSIVE DepthZeroAt(_, _, _, _, _)
DepthZeroAt(text, i, d, open, close) ==
    IF i > Len(text)
    THEN 0
    ELSE LET d2 == IF text[i][1] = open THEN d + 1
                   ELSE IF text[i][1] = close THEN d - 1 ELSE d
         IN IF d2 = 0 THEN i ELSE DepthZeroAt(text, i + 1, d2, open, close)

\* The span from the first open bracket to where its depth is back at zero;
\* <<>> when there is no open bracket or the depth never returns to zero.
BalancedSpan(text, open, close) ==
    LET a == Find(text, open)
        b == IF a = 0 THEN 0 ELSE DepthZeroAt(text, a, 0, open, close)
    IN IF b = 0 THEN <<>> ELSE SubSeq(text, a, b)

\* C24: on a reply without fenced block, _extract_json_object and
\* _extract_json_array return the span from the first open bracket to the
\* first position where the depth of that bracket kind is back at zero, and
\* raise when there is no such span: the attempt that received the reply
\* either failed with ValueError (no span), or went on with exactly that span
\* (the tree, resp. the list, is read from it).
C24_DepthScanSpan ==
    /\ request.op = "generate" =>
          \A i \in 1..Len(synth_replies) :
              LET t == synth_replies[i].content
                  sp == BalancedSpan(t, "{", "}")
              IN (synth_replies[i].raised = NoError /\ NoFence(t)) =>
                    /\ ExtractJsonObject(t) = [ok |-> sp # <<>>, span |-> sp]
                    /\ i = Len(synth_replies) =>
                          /\ tree # <<>> => tree = sp
                          /\ sp = <<>> =>
                                tree = <<>> /\ last_error = "ValueError"
                          /\ sp # <<>> =>
                                tree = sp \/ last_error = "ValidationError"
    /\ request.op = "enterprises" =>
          \A i \in 1..Len(synth_replies) :
              LET t == synth_replies[i].content
                  sp == BalancedSpan(t, "[", "]")
              IN (synth_replies[i].raised = NoError /\ NoFence(t)) =>
                    /\ ExtractJsonArray(t) = [ok |-> sp # <<>>, span |-> sp]
                    /\ i = Len(synth_replies) =>
                          /\ sp = <<>> => last_error = "ValueError"
                          /\ sp # <<>> =>
                                \/ last_error = "JSONDecodeError"
                                \/ /\ response.status = 200
                                   /\ response.enterprises =
                                         Take(SubSeq(sp, 2, Len(sp) - 1),
                                              EnterpriseCap)

\* A stream completed with the nested tree of a reply that has prose before
\* it and prose with a closing brace after it.
C24_Witness ==
    /\ request.op = "generate"
    /\ pc = "done"
    /\ Last(synth_replies).raised = NoError
    /\ NoFence(Last(synth_replies).content)
    /\ Len(tree) = 9
    /\ Len(Last(synth_replies).content) = 12
    /\ Last(Stream).data.tree = SubSeq(Last(synth_replies).content, 2, 10)

\* The number of search calls made so far, over all tasks.
RECURSIVE Sum(_)
Sum(sq) == IF sq = <<>> THEN 0 ELSE Head(sq) + Sum(Tail(sq))

\* C25: in every fan-out (Analyze, Refine, enterprise lookup) there is one
\* task per keyword of the list, a task that has not finished has made no
\* search call and a finished one exactly one, failed or not: the calls made
\* are as many as the results, one result per keyword; when the run has ended
\* every keyword of the list was searched exactly once.
C25_SearchOnce ==
    /\ Len(search_calls) \in {0, Len(keywords)}
    /\ \A i \in 1..Len(search_calls) :
          search_calls[i] = (IF i \in pending THEN 0 ELSE 1)
    /\ Sum(search_calls) = Len(done_q)
    /\ \A i \in 1..Len(search_calls) :
          Cardinality({j \in 1..Len(done_q) : done_q[j].keyword = keywords[i]})
             = search_calls[i]
    /\ pc = "done" =>
          /\ Len(search_calls) = Len(keywords)
          /\ \A i \in 1..Len(keywords) : search_calls[i] = 1

\* An enterprise lookup that ended after its first two searches failed and
\* the third one succeeded: three calls.
C25_Witness ==
    /\ request.op = "enterprises"
    /\ pc = "done"
    /\ Len(done_q) = 3
    /\ \E j \in 1..3 : done_q[j].err = NoError
    /\ Cardinality({j \in 1..3 : done_q[j].err # NoError}) = 2
    /\ Sum(search_calls) = 3

\* The understanding call of an Analyze stream was made and it raised.
AnalyzeSynthFailed ==
    /\ request.op = "analyze"
    /\ Len(synth_replies) = 1
    /\ synth_replies[1].raised # NoError

\* C26: an Analyze stream makes its understanding call at most once, and
\* exactly once when it has ended.  The step in which the call raises keeps
\* the events written before and adds one error event after them; from then
\* on the stream holds one terminal event, the error, right after the 75%
\* progress event, holds no 100% progress event, and nothing more is written
\* or called.
C26_AnalyzeNoRetry ==
    [][request.op = "analyze" =>
          /\ Len(synth_replies') <= 1
          /\ pc' = "done" => Len(synth_replies') = 1
          /\ (synth_replies' # synth_replies /\ AnalyzeSynthFailed') =>
                /\ SubSeq(out', 1, Len(out)) = out
                /\ Len(out') = Len(out) + 2
                /\ Last(out').body.event_type = "error"
          /\ AnalyzeSynthFailed' =>
                LET S == Stream'
                IN /\ Last(S).event_type = "error"
                   /\ Cardinality({i \in 1..Len(S) :
                                      S[i].event_type \in Terminal}) = 1
                   /\ \A i \in 1..Len(S) :
                         S[i].event_type = "progress" =>
                             S[i].data.percentage # 100
                   /\ S[Len(S) - 1].event_type = "progress"
                   /\ S[Len(S) - 1].data.percentage = 75
          /\ AnalyzeSynthFailed =>
                out' = out /\ synth_replies' = synth_replies
      ]_vars

\* An Analyze stream that found pages and ended in error because its
\* understanding call raised InvocationError.
C26_Witness ==
    /\ AnalyzeSynthFailed
    /\ pc = "done"
    /\ synth_replies[1].raised = "InvocationError"
    /\ Len(all_webpages) > 0
    /\ Last(Stream).event_type = "error"

\* Nesting level of position i of a JSON text: the brackets opened and not
\* closed before it.
Level(t, i) ==
    Cardinality({x \in 1..(i - 1) : t[x] \in {Tok("{"), Tok("[")}})
    - Cardinality({x \in 1..(i - 1) : t[x] \in {Tok("}"), Tok("]")}})

\* Position of the bracket that closes the one at position i, 0 if none.
CloseOf(t, i) ==
    LET Cs == {j \in (i + 1)..Len(t) :
                  /\ t[j] \in {Tok("}"), Tok("]")}
                  /\ Level(t, j + 1) = Level(t, i)}
    IN IF Cs = {} THEN 0 ELSE CHOOSE j \in Cs : \A x \in Cs : j <= x

\* Positions directly inside the bracket pair that opens at position i.
Inside(t, i) ==
    {j \in (i + 1)..(CloseOf(t, i) - 1) : Level(t, j) = Level(t, i) + 1}

\* The tree schema, stated on the text of a JSON object: the object spans
\* the text and has an industry_name member; every other object is an element
\* of a children list and has a name member; the value of every children
\* key is a list, and the elements of a list are objects.
SchemaOK(t) ==
    /\ Len(t) >= 2
    /\ t[1] = Tok("{")
    /\ CloseOf(t, 1) = Len(t)
    /\ \E j \in Inside(t, 1) : t[j] = Tok("I")
    /\ \A i \in 2..Len(t) :
          /\ t[i] = Tok("{") =>
                /\ CloseOf(t, i) # 0
                /\ t[CloseOf(t, i)] = Tok("}")
                /\ \E j \in Inside(t, i) : t[j] = Tok("N")
                /\ \E l \in 1..(i - 1) : t[l] = Tok("[") /\ i \in Inside(t, l)
          /\ t[i] = Tok("C") => i < Len(t) /\ t[i + 1] = Tok("[")
          /\ t[i] = Tok("[") =>
                /\ t[i - 1] = Tok("C")
                /\ CloseOf(t, i) # 0
                /\ t[CloseOf(t, i)] = Tok("]")
                /\ \A j \in Inside(t, i) : t[j] = Tok("{")

\* C27: the tree of a completed event of generate_stream satisfies the tree
\* schema at every depth; an attempt whose extracted object does not (no
\* industry_name, a node without name, children that is not a list of nodes)
\* is a failed attempt: it leaves no tree and either a further call follows
\* or, after the last attempt, the stream ends in error.
C27_SchemaRecursive ==
    request.op = "generate" =>
        /\ \A i \in At("completed") : SchemaOK(Stream[i].data.tree)
        /\ \A k \in 1..Len(synth_replies) :
              LET x == ExtractJsonObject(synth_replies[k].content)
              IN (/\ synth_replies[k].raised = NoError
                  /\ x.ok
                  /\ ~SchemaOK(x.span)) =>
                    /\ \A i \in At("completed") : Stream[i].data.tree # x.span
                    /\ k = Len(synth_replies) =>
                          /\ tree = <<>>
                          /\ last_error = "ValidationError"
                          /\ attempt = k
                          /\ IF k < max_attempts
                             THEN pc = "g_await_llm" /\ At("error") = {}
                             ELSE pc \in {"g_error", "done"} /\ At("error") # {}

\* A stream whose first reply had a node without name at the third level and
\* whose second reply was a tree of three levels: completed with that tree.
C27_Witness ==
    /\ request.op = "generate"
    /\ pc = "done"
    /\ Len(synth_replies) = 2
    /\ Len(synth_replies[1].content) = 14
    /\ ~SchemaOK(synth_replies[1].content)
    /\ Len(synth_replies[2].content) = 15
    /\ SchemaOK(synth_replies[2].content)
    /\ Last(Stream).event_type = "completed"
    /\ Last(Stream).data.tree = synth_replies[2].content

\* Characters of a context.
CharLen(text) == Sum([i \in 1..Len(text) |-> Chars(text[i])])

\* The first n texts, with a blank line between each two.
RECURSIVE GlueUpTo(_, _)
GlueUpTo(texts, n) ==
    IF n = 0 THEN <<>>
    ELSE IF n = 1 THEN texts[1]
         ELSE GlueUpTo(texts, n - 1) \o <<Tok("nn")>> \o texts[n]

\* p is the beginning of full: its tokens are those of full, and the last
\* one may stand for the first characters only of the token of full.
IsCharPrefix(p, full) ==
    /\ Len(p) <= Len(full)
    /\ \A i \in 1..(Len(p) - 1) : p[i] = full[i]
    /\ Len(p) > 0 =>
          \/ p[Len(p)] = full[Len(p)]
          \/ /\ Len(p[Len(p)]) = 3
             /\ p[Len(p)][1] = full[Len(p)][1]
             /\ p[Len(p)][2] = full[Len(p)][2]
             /\ p[Len(p)][3] \in 1..(Chars(full[Len(p)]) - 1)

\* The call has a search context: Analyze, Refine, the enterprise lookup.
HasContext == request.op \in {"analyze", "enterprises"} \/ is_refine

\* The search context inside the prompt: what follows the template piece in
\* front of it, up to the piece after it (the Analyze template ends with it).
ContextInPrompt ==
    IF request.op = "analyze"
    THEN SubSeq(prompt, 4, Len(prompt))
    ELSE LET piece == IF request.op = "generate"
                      THEN <<"REFINE_PROMPT", 4>>
                      ELSE <<"ENTERPRISE_EXTRACT_PROMPT", 3>>
             a == CHOOSE i \in 1..Len(prompt) : prompt[i] = piece
         IN SubSeq(prompt, a + 1, Len(prompt) - 1)

\* The context of the prompt is the beginning, of at most 15000 characters
\* (10000 in Refine), of the texts of the successful searches that keep
\* admits, in completion order with a blank line between them, or of the
\* placeholder when there is no such text.
ContextIs(keep(_)) ==
    (HasContext /\ prompt # <<>>) =>
        LET F == SelectSeq(done_q, LAMBDA r : r.err = NoError
                                               /\ keep(r.formatted_text))
            texts == [i \in 1..Len(F) |-> F[i].formatted_text]
            full == IF texts = <<>>
                    THEN IF request.op = "generate"
                         THEN <<Tok("no_supplement_found")>>
                         ELSE <<Tok("no_results_found")>>
                    ELSE GlueUpTo(texts, Len(texts))
            cap == IF request.op = "generate" THEN 10000 ELSE 15000
        IN /\ IsCharPrefix(ContextInPrompt, full)
           /\ CharLen(ContextInPrompt) = Min(cap, CharLen(full))

\* C28 as stated: the context is made of the non-empty formatted texts of the
\* successful searches.
C28_Original == ContextIs(LAMBDA t : t # EmptyText)

\* C28 amended: the context is made of the formatted texts of the successful
\* searches that are neither empty nor the "no results" text of the search,
\* in completion order with a blank line between them (the placeholder when
\* there is none), cut to its first 15000 characters in Analyze and in the
\* enterprise lookup and to its first 10000 in Refine.
C28_ContextCut == ContextIs(LAMBDA t : t # EmptyText /\ t # NotFoundText)

\* An Analyze stream whose understanding call got a context of three texts
\* cut inside its last token, after one search failed and one returned the
\* "no results" text.
C28_Witness ==
    /\ request.op = "analyze"
    /\ prompt # <<>>
    /\ Len(all_formatted) = 3
    /\ Len(Last(prompt)) = 3
    /\ CharLen(ContextInPrompt) = 15000
    /\ \E j \in 1..Len(done_q) : done_q[j].err # NoError
    /\ \E j \in 1..Len(done_q) :
          done_q[j].err = NoError /\ done_q[j].formatted_text = NotFoundText

\* C29: in an Analyze stream over N keywords the event right after the k-th
\* web_result event is a progress event with percentage 20 + floor(40k / N):
\* above 20 from the first one, and 60 exactly at k = N, whichever searches
\* failed and in whatever order they finished.
C29_AnalyzePct ==
    request.op = "analyze" =>
        LET W == At("web_result")
        IN \A i \in W :
               i < Len(Stream) =>
                   LET k == Cardinality({j \in W : j <= i})
                       N == Len(keywords)
                       pct == Stream[i + 1].data.percentage
                   IN /\ k \in 1..N
                      /\ Stream[i + 1].event_type = "progress"
                      /\ pct = 20 + ((40 * k) \div N)
                      /\ pct > 20
                      /\ pct <= 60
                      /\ pct = 60 <=> k = N

\* An Analyze stream over 3 keywords whose last keyword finished first and
\* failed: the percentages after the three results are 33, 46 and 60.
C29_Witness ==
    /\ request.op = "analyze"
    /\ Len(keywords) = 3
    /\ pc = "a_progress60"
    /\ done_q[1].keyword = keywords[3]
    /\ done_q[1].err # NoError
    /\ done_q[2].err = NoError
    /\ Stream[6].data.percentage = 33
    /\ Stream[8].data.percentage = 46
    /\ Stream[10].data.percentage = 60

\* No search of the lookup gave a text: each failed or returned none.
NothingFound ==
    \A j \in 1..Len(done_q) :
        done_q[j].err # NoError \/ ~UsableText(done_q[j].formatted_text)

\* C30: the enterprise lookup creates its 3 search tasks together, before it
\* awaits any of them; failed searches and searches without text never end
\* it: once the 3 tasks are joined the extraction prompt is built (with the
\* placeholder as context when nothing was found), the lookup ends only after
\* an extraction call, never with the error of a search, and it answers
\* with the list whenever the last reply holds one.
C30_LookupToleratesSearchFailure ==
    request.op = "enterprises" =>
        /\ pc # "e_init" =>
              /\ Len(keywords) = 3
              /\ NumTasks = 3
              /\ pending \cup {i \in 1..3 : search_calls[i] = 1} = 1..3
        /\ pc = "e_await_search" => completed < 3 /\ response = NoResponse
        /\ pc \in {"e_await_llm", "done"} =>
              /\ Len(done_q) = 3
              /\ completed = 3
              /\ prompt # <<>>
              /\ NothingFound => ContextInPrompt = <<Tok("no_results_found")>>
              /\ last_error \notin {done_q[j].err : j \in 1..3} \ {NoError}
        /\ pc = "done" =>
              /\ Len(synth_replies) >= 1
              /\ TryParseEnterprises(Last(synth_replies)).ok =>
                    /\ response.status = 200
                    /\ response.success
                    /\ response.enterprises =
                          TryParseEnterprises(Last(synth_replies)).value

\* A lookup whose 3 searches all failed and that answered with a list of
\* two enterprises.
C30_Witness ==
    /\ request.op = "enterprises"
    /\ pc = "done"
    /\ \A j \in 1..3 : done_q[j].err # NoError
    /\ ContextInPrompt = <<Tok("no_results_found")>>
    /\ response.status = 200
    /\ Len(response.enterprises) = 2

\* The keyword call of refine mode failed: it raised, or its text has no "["
\* or no "]", or the text between the first "[" and the last "]" is no JSON.
KeywordStepFailed(reply) ==
    \/ reply.raised # NoError
    \/ Find(reply.content, "[") = 0
    \/ RFind(reply.content, "]") = 0
    \/ ~JsonLoadsList(BracketSpan(reply.content)).ok

\* C31: in refine mode a failed keyword call never ends the stream: the
\* keyword list is then the single keyword built from the query and the
\* feedback, keyword_generated carries it and no error event is emitted;
\* the stream goes on to search that keyword, and an error event in such a
\* stream comes only after max_attempts failed synthesis calls.
C31_RefineKeywordFallback ==
    (request.op = "generate" /\ is_refine) =>
        /\ (pc = "r_keywords" /\ KeywordStepFailed(kw_reply)) =>
              /\ keywords = <<refine_fallback>>
              /\ Last(Stream).event_type = "keyword_generated"
              /\ Last(Stream).data.keywords = <<refine_fallback>>
              /\ At("error") = {}
              /\ wpc = "open"
        /\ keywords = <<refine_fallback>> =>
              /\ FanOutOver =>
                    /\ search_calls = <<1>>
                    /\ Len(WebResults) = 1
                    /\ WebResults[1].data.keyword = refine_fallback
              /\ At("error") # {} =>
                    /\ Len(synth_replies) = max_attempts
                    /\ \A i \in 1..max_attempts :
                          ~TryParseTree(synth_replies[i]).ok

\* The keyword call of a refine stream raised and keyword_generated has been
\* emitted with the fallback keyword.
C31_Witness ==
    /\ is_refine
    /\ pc = "r_keywords"
    /\ kw_reply.raised # NoError
    /\ Last(Stream).event_type = "keyword_generated"
    /\ Last(Stream).data.keywords = <<refine_fallback>>

\* Positions of the progress events of the as_completed loop body.
PerSearchProgress ==
    {i \in At("progress") :
        Stream[i].data.step_name[1] \in {"searches_done", "refine_searches_done"}}

\* C32: the progress computation never divides by zero.  Where the loop body
\* is about to compute a percentage the keyword count is positive.  In
\* Analyze the keyword list has between 1 and 5 elements: the first 5 of a
\* longer list of the model, the 5 defaults for an empty list or a reply
\* that holds no list.  In Refine a list of 0 elements gives no task, no
\* web_result and no progress event of the loop, and the stream goes on to
\* the synthesis calls.
C32_NoDivisionByZero ==
    IsPipeline =>
        /\ pc \in {"a_web_result", "r_web_result"} =>
              /\ Len(keywords) > 0
              /\ completed \in 1..Len(keywords)
        /\ (request.op = "analyze" /\ pc = "a_keywords") =>
              /\ Len(keywords) \in 1..5
              /\ \A n \in 6..(MaxLlmKeywords + 1) :
                    IsListReply(kw_reply, n) =>
                        keywords = [i \in 1..5 |-> KwTok(i)]
              /\ (IsListReply(kw_reply, 0) \/ KeywordStepFailed(kw_reply)) =>
                    keywords = default_keywords
        /\ (request.op = "analyze"
              /\ pc \notin {"a_init", "a_started", "a_progress10"}) =>
              Len(keywords) \in 1..5
        /\ (RefineKeywordsKnown /\ Len(keywords) = 0) =>
              /\ At("web_result") = {}
              /\ PerSearchProgress = {}
              /\ pending = {}
              /\ pc \in {"r_keywords", "r_progress25", "g_await_llm",
                         "g_completed", "g_error", "done"}
              /\ pc = "g_await_llm" =>
                    /\ Last(Stream).event_type = "progress"
                    /\ Last(Stream).data.percentage = 55
                    /\ At("error") = {}
              /\ pc = "done" => Len(synth_replies) >= 1

\* A refine stream whose keyword list was empty and that completed: started,
\* three progress events around keyword_generated, completed.
C32_Witness ==
    /\ is_refine
    /\ pc = "done"
    /\ keywords = <<>>
    /\ Len(Stream) = 6
    /\ Last(Stream).event_type = "completed"

\* C33: in the fan-out of Analyze and of Refine the event right after the
\* k-th web_result is the progress event of the loop body, whose step name
\* carries k, the number of web_result events emitted so far, and the number
\* of keywords; the loop emits no other progress event, so each web_result
\* has exactly one, and a web_result is the last event of the stream only
\* while the pipeline stands between the two yields.
C33_WebResultThenProgress ==
    (request.op = "analyze" \/ (request.op = "generate" /\ is_refine)) =>
        LET W == At("web_result")
            tag == IF request.op = "analyze"
                   THEN "searches_done" ELSE "refine_searches_done"
        IN /\ \A i \in W :
                 i < Len(Stream) =>
                    /\ Stream[i + 1].event_type = "progress"
                    /\ Stream[i + 1].data.step_name =
                          <<tag, Cardinality({j \in W : j <= i}), Len(keywords)>>
           /\ PerSearchProgress = {i + 1 : i \in {j \in W : j < Len(Stream)}}
           /\ (Len(Stream) \in W) <=> (pc \in {"a_web_result", "r_web_result"})

\* An Analyze stream over 5 keywords that has reported its second result
\* while four searches had already finished.
C33_Witness ==
    /\ request.op = "analyze"
    /\ pc = "a_search_progress"
    /\ Len(keywords) = 5
    /\ completed = 2
    /\ Len(done_q) = 4
    /\ Last(Stream).data.step_name = <<"searches_done", 2, 5>>
    /\ Stream[Len(Stream) - 1].event_type = "web_result"

\* C34: an Analyze stream that holds a completed event over K keywords has
\* exactly 2K + 9 events, the completed event is the last one and carries
\* sequence_number 2K + 9 (19 for 5 keywords), however many searches failed
\* and in whatever order they finished.
C34_AnalyzeEventCount ==
    (request.op = "analyze" /\ At("completed") # {}) =>
        LET K == Len(keywords)
        IN /\ Len(Stream) = 2 * K + 9
           /\ At("completed") = {2 * K + 9}
           /\ Last(Stream).sequence_number = 2 * K + 9
           /\ K = 5 => Last(Stream).sequence_number = 19
           /\ Cardinality(At("web_result")) = K
           /\ Cardinality(At("progress")) = K + 5

\* A completed Analyze stream over 2 keywords, the second finished first and
\* failed: 13 events.
C34_Witness ==
    /\ request.op = "analyze"
    /\ pc = "done"
    /\ Len(keywords) = 2
    /\ done_q[1].keyword = keywords[2]
    /\ done_q[1].err # NoError
    /\ Len(Stream) = 13
    /\ Last(Stream).event_type = "completed"
    /\ Last(Stream).sequence_number = 13

\* Calls of invoke_llm_with_fallback made so far.
LlmCalls == kw_calls + Len(synth_replies)

\* The most calls one request may make.
LlmCallBound ==
    IF request.op = "generate" /\ is_refine THEN 3 ELSE 2

\* The reply is one the synthesis step of the request accepts.
SynthOK(reply) ==
    IF request.op = "analyze" THEN reply.raised = NoError
    ELSE IF request.op = "generate" THEN TryParseTree(reply).ok
    ELSE TryParseEnterprises(reply).ok

\* The stream holds its terminal event, or the lookup has answered.
Ended == At("completed") \cup At("error") # {} \/ response # NoResponse

\* C35: every step leaves the number of language-model calls within the
\* bound of the request: 2 in Analyze (one keyword call, one synthesis
\* call), 2 in generate mode (no keyword call), 3 in refine mode (one
\* keyword call, at most 2 synthesis attempts), 2 in the enterprise lookup
\* (no keyword call); and no step makes a call once a synthesis attempt has
\* succeeded or the terminal event has been emitted.
C35_LlmCallsBounded ==
    [][request.op # "stub" =>
          /\ LlmCalls' <= LlmCallBound
          /\ LlmCalls' \in {LlmCalls, LlmCalls + 1}
          /\ kw_calls' <= (IF request.op = "analyze" \/ is_refine THEN 1 ELSE 0)
          /\ Len(synth_replies') <= (IF request.op = "analyze" THEN 1 ELSE 2)
          /\ (synth_replies # <<>> /\ SynthOK(Last(synth_replies))) =>
                LlmCalls' = LlmCalls
          /\ Ended => LlmCalls' = LlmCalls]_vars

\* A refine stream that made its 3 calls and ended in error.
C35_Witness ==
    /\ is_refine
    /\ pc = "done"
    /\ kw_calls = 1
    /\ Len(synth_replies) = 2
    /\ LlmCalls = 3
    /\ At("error") # {}

\* The step joins a search that failed: the failure branch of the loop body.
FailedJoin ==
    /\ pc \in {"a_await_search", "r_await_search"}
    /\ completed' = completed + 1
    /\ done_q[completed + 1].err # NoError

\* The keywords whose search failed.
FailedKeywords ==
    {done_q[j].keyword : j \in {i \in 1..Len(done_q) : done_q[i].err # NoError}}

\* Nothing aggregated comes from a failed keyword: no accumulated page, no
\* accumulated text, no token of the prompt, no entry of the sources, and
\* the analyzing event counts the accumulated pages only.
NoTraceOfFailed ==
    /\ \A i \in 1..Len(all_webpages) : all_webpages[i].name \notin FailedKeywords
    /\ \A i \in 1..Len(all_formatted) :
          \A t \in 1..Len(all_formatted[i]) :
              all_formatted[i][t] \notin FailedKeywords
    /\ \A i \in 1..Len(prompt) :
          <<prompt[i][1], prompt[i][2]>> \notin FailedKeywords
    /\ \A i \in 1..Len(sources) : sources[i].title \notin FailedKeywords
    /\ \A i \in At("analyzing") :
          Stream[i].data.source_count = Len(all_webpages)
    /\ \A i \in At("completed") :
          request.op = "analyze" =>
              \A k \in 1..Len(Stream[i].data.sources) :
                  Stream[i].data.sources[k].title \notin FailedKeywords

\* C36: the step of Analyze or Refine that joins a failed search changes
\* neither the accumulated webpage list nor the accumulated text list (nor
\* source_count, the sources or the prompt), and after every step nothing
\* aggregated comes from a keyword whose search failed: not the analyzing
\* source_count, not the search context, not the completed sources.
C36_FailedSearchFrame ==
    [][IsPipeline =>
          /\ FailedJoin =>
                /\ all_webpages' = all_webpages
                /\ all_formatted' = all_formatted
                /\ source_count' = source_count
                /\ sources' = sources
                /\ prompt' = prompt
          /\ NoTraceOfFailed']_vars

\* Analyze has just joined a failed search after one that returned pages
\* and a text.
C36_Witness ==
    /\ request.op = "analyze"
    /\ pc = "a_web_result"
    /\ completed >= 2
    /\ done_q[completed].err # NoError
    /\ Last(Stream).data.result_count = 0
    /\ Len(all_webpages) = 3
    /\ Len(all_formatted) = 1

\* C37: in Analyze the source_count of the analyzing event is the number of
\* pages returned by the successful searches, every page counted (those
\* with a url seen before and those without url too), and the sources of
\* the completed event have at most that many entries.
C37_SourceCount ==
    request.op = "analyze" =>
        LET pages == ReturnedPages(done_q)
        IN /\ \A i \in At("analyzing") :
                 /\ Stream[i].data.source_count = Len(pages)
                 /\ Stream[i].data.source_count
                       = Sum([j \in 1..Len(done_q) |->
                                 IF done_q[j].err = NoError
                                 THEN Len(done_q[j].webpages) ELSE 0])
           /\ \A i \in At("completed") :
                 /\ Len(Stream[i].data.sources) <= Len(pages)
                 /\ \A a \in At("analyzing") :
                       Len(Stream[i].data.sources) <= Stream[a].data.source_count

\* A completed Analyze stream: two searches returned the same pages, one of
\* them without url; source_count is 6 and the sources have 2 entries.
C37_Witness ==
    /\ request.op = "analyze"
    /\ At("completed") # {}
    /\ \E a \in At("analyzing") : Stream[a].data.source_count = 6
    /\ Len(Last(Stream).data.sources) = 2
    /\ \E j \in 1..Len(done_q) : done_q[j].err # NoError

====
